---- MODULE Spec2Model ----
(***************************************************************************)
(* Peer directory and connection accounting of the network layer           *)
(* (communication/src/network/peer_info_database.rs).                      *)
(*                                                                         *)
(* The directory `peers` maps an IP to its PeerInfo; three aggregate       *)
(* counters mirror the per-record counters; every public operation of      *)
(* PeerInfoDatabase is one action.  cleanup_peers drains a HashMap, whose  *)
(* iteration order is arbitrary, so it is modelled as the set of the       *)
(* directories it can produce.  UTime::now() returns a Result: an          *)
(* operation that reads the clock has one outcome with the current time    *)
(* and one with the clock error.                                           *)
(***************************************************************************)
EXTENDS Integers, Sequences, FiniteSets, TLC

(***************************************************************************)
(* Bounds of the model.                                                    *)
(***************************************************************************)
\* number of globally routable addresses of the universe
NumGlobalIps == 2
\* the clock runs over 0..MaxTime
MaxTime == 1
\* longest candidate list handed to merge_candidate_peers
MaxNewPeers == 2
\* largest counter and cap the slot computation is evaluated on
MaxCount == 3
\* most objects in a peers file read by new()
MaxFileLen == 2
\* most public calls before stop() in the runs of the saver task
MaxCalls == 2

(***************************************************************************)
(* Addresses.  Address 1 stands for a non-global address (loopback,        *)
(* private, ...); addresses 2..NumGlobalIps+1 are globally routable.       *)
(* NoIp is the None of Option<IpAddr>.                                     *)
(***************************************************************************)
NoIp == 0
LocalIp == 1
GlobalIps == 2..(NumGlobalIps + 1)
IPs == {LocalIp} \cup GlobalIps

is_global(ip) == ip \in GlobalIps

\* None of Option<UTime>; Option orders None before every Some(t)
NoTime == -1
Times == 0..MaxTime
OptTimes == {NoTime} \cup Times

VARIABLES
    cfg,                              \* NetworkConfig, frozen at construction
    peers,                            \* HashMap<IpAddr, PeerInfo>
    active_out_connection_attempts,   \* aggregate counters of PeerInfoDatabase
    active_out_connections,
    active_in_connections,
    saver_watch,                      \* the watch channel towards the saver task
    now,                              \* the wall clock read by UTime::now()
    ever_banned,                      \* history: the addresses peer_banned succeeded on
    ret,                              \* the last public call and what it returned
    file,                             \* the peers file at cfg.peers_file
    saver,                            \* the saver task spawned by new()
    stop_call,                        \* the progress of stop()
    hist                              \* history: calls made, snapshots sent and written

vars == <<cfg, peers, active_out_connection_attempts, active_out_connections,
          active_in_connections, saver_watch, now, ever_banned, ret,
          file, saver, stop_call, hist>>

(***************************************************************************)
(* PeerInfo                                                                *)
(***************************************************************************)
PeerInfo(ip, banned, bootstrap, last_alive, last_failure, advertised, att, out, inn) ==
    [ip |-> ip, banned |-> banned, bootstrap |-> bootstrap,
     last_alive |-> last_alive, last_failure |-> last_failure,
     advertised |-> advertised,
     active_out_connection_attempts |-> att,
     active_out_connections |-> out,
     active_in_connections |-> inn]

is_active(p) ==
    \/ p.active_out_connection_attempts > 0
    \/ p.active_out_connections > 0
    \/ p.active_in_connections > 0

Min(a, b) == IF a <= b THEN a ELSE b

\* slip: a plain subtraction, which goes below zero
unchecked_sub(a, b) == a - b

\* usize::saturating_sub
saturating_sub(a, b) == IF a >= b THEN a - b ELSE 0

Range(s) == {s[i] : i \in 1..Len(s)}

\* the orders in which a HashMap can hand out the entries whose keys are S
Orderings(S) ==
    {s \in [1..Cardinality(S) -> S] :
        \A i, j \in 1..Cardinality(S) : i # j => s[i] # s[j]}

\* slip: one element too many survives the truncation
truncate_off_by_one(s, n) == SubSeq(s, 1, Min(n + 1, Len(s)))

\* slip: the last element that should survive is cut as well
truncate_short(s, n) == IF s = <<>> THEN s ELSE SubSeq(s, 1, Min(n, Len(s) - 1))

\* Vec::truncate
truncate(s, n) == SubSeq(s, 1, Min(n, Len(s)))

\* key (Reverse(last_alive), last_failure)
AliveDescFailureAsc(a, b) ==
    \/ a.last_alive > b.last_alive
    \/ (a.last_alive = b.last_alive /\ a.last_failure < b.last_failure)

\* slip: the oldest failures come first
FailureAscAliveAsc(a, b) ==
    \/ a.last_failure < b.last_failure
    \/ (a.last_failure = b.last_failure /\ a.last_alive < b.last_alive)

\* key (Reverse(last_failure), last_alive)
FailureDescAliveAsc(a, b) ==
    \/ a.last_failure > b.last_failure
    \/ (a.last_failure = b.last_failure /\ a.last_alive < b.last_alive)

\* key (last_failure, Reverse(last_alive))
FailureAscAliveDesc(a, b) ==
    \/ a.last_failure < b.last_failure
    \/ (a.last_failure = b.last_failure /\ a.last_alive > b.last_alive)

\* the keys the code sorts records by, each named by its order
KeyLess(key, a, b) ==
    CASE key = "AliveDescFailureAsc" -> AliveDescFailureAsc(a, b)
      [] key = "FailureDescAliveAsc" -> FailureDescAliveAsc(a, b)
      [] key = "FailureAscAliveDesc" -> FailureAscAliveDesc(a, b)

\* slip: elements with equal keys come out in reverse order
sort_by_key_ties_reversed(s, key) ==
    LET n == Len(s)
        rank(i) == 1 + Cardinality({j \in 1..n :
                        \/ KeyLess(key, s[j], s[i])
                        \/ (~KeyLess(key, s[i], s[j]) /\ j > i)})
    IN [k \in 1..n |-> s[CHOOSE i \in 1..n : rank(i) = k]]

\* slice::sort_by_key, a stable sort
sort_by_key(s, key) ==
    LET n == Len(s)
        rank(i) == 1 + Cardinality({j \in 1..n :
                        \/ KeyLess(key, s[j], s[i])
                        \/ (~KeyLess(key, s[i], s[j]) /\ j < i)})
    IN [k \in 1..n |-> s[CHOOSE i \in 1..n : rank(i) = k]]

\* slice::sort_unstable_by_key: some sorted permutation of s, elements with
\* equal keys in no particular order
sort_unstable_by_key(s, key) ==
    {[k \in 1..Len(s) |-> s[o[k]]] : o \in
        {o \in Orderings(1..Len(s)) :
            \A i, j \in 1..Len(s) : i < j => ~KeyLess(key, s[o[j]], s[o[i]])}}

(***************************************************************************)
(* NetworkConfig: the options the database reads.                          *)
(***************************************************************************)
\* arguments: routable_ip, target_out_connections,
\* max_out_connnection_attempts, max_in_connections,
\* max_in_connections_per_ip, max_idle_peers, max_banned_peers,
\* max_advertise_length, wakeup_interval
NetworkConfig(rip, target, max_att, max_in, per_ip, idle, banned, adv, wakeup) ==
    [routable_ip |-> rip,
     target_out_connections |-> target,
     max_out_connnection_attempts |-> max_att,
     max_in_connections |-> max_in,
     max_in_connections_per_ip |-> per_ip,
     max_idle_peers |-> idle,
     max_banned_peers |-> banned,
     max_advertise_length |-> adv,
     wakeup_interval |-> wakeup]

(***************************************************************************)
(* cleanup_peers                                                           *)
(***************************************************************************)
\* the fresh record cleanup_peers builds for a candidate address
NewPeerInfo(ip) == PeerInfo(ip, FALSE, FALSE, NoTime, NoTime, TRUE, 0, 0, 0)

\* new_peers.iter().unique().filter(..).take(max_advertise_length): a lazy
\* chain.  take() stops polling once max_advertise_length addresses passed the
\* filter, so the addresses after that point are never looked at, and the
\* filter's side effect (marking a known address advertised) is not applied
\* to them.  Result: the directory with the marks, and the addresses taken.
RECURSIVE FilterNewPeers(_, _, _, _, _)
\* slip: the take lets one candidate more through
FilterNewPeers_takes_one_more(c, ps, new_peers, i, taken) ==
    IF i > Len(new_peers) \/ Len(taken) > c.max_advertise_length
    THEN [peers |-> ps, ips |-> taken]
    ELSE LET ip == new_peers[i] IN
         IF \E j \in 1..(i - 1) : new_peers[j] = ip
         THEN FilterNewPeers(c, ps, new_peers, i + 1, taken)
         ELSE IF ip \in DOMAIN ps
         THEN FilterNewPeers(c, [ps EXCEPT ![ip].advertised = TRUE],
                             new_peers, i + 1, taken)
         ELSE IF ~is_global(ip)
         THEN FilterNewPeers(c, ps, new_peers, i + 1, taken)
         ELSE IF c.routable_ip # NoIp /\ ip = c.routable_ip
         THEN FilterNewPeers(c, ps, new_peers, i + 1, taken)
         ELSE FilterNewPeers(c, ps, new_peers, i + 1, Append(taken, ip))

FilterNewPeers(c, ps, new_peers, i, taken) ==
    IF i > Len(new_peers) \/ Len(taken) >= c.max_advertise_length
    THEN [peers |-> ps, ips |-> taken]
    ELSE LET ip == new_peers[i] IN
         IF \E j \in 1..(i - 1) : new_peers[j] = ip
         THEN FilterNewPeers(c, ps, new_peers, i + 1, taken)
         ELSE IF ip \in DOMAIN ps
         THEN FilterNewPeers(c, [ps EXCEPT ![ip].advertised = TRUE],
                             new_peers, i + 1, taken)
         ELSE IF ~is_global(ip)
         THEN FilterNewPeers(c, ps, new_peers, i + 1, taken)
         ELSE IF c.routable_ip # NoIp /\ ip = c.routable_ip
         THEN FilterNewPeers(c, ps, new_peers, i + 1, taken)
         ELSE FilterNewPeers(c, ps, new_peers, i + 1, Append(taken, ip))

\* peers.extend(v.into_iter().map(|p| (p.ip, p))): a later entry replaces an
\* earlier one with the same key
FromVec(v) ==
    [ip \in {v[i].ip : i \in 1..Len(v)} |->
        v[CHOOSE i \in 1..Len(v) :
            v[i].ip = ip /\ \A j \in 1..Len(v) : v[j].ip = ip => j <= i]]

\* slip: the drain loop forgets to skip our own address
UnroutableNonGlobalOnly(c, ip) == ~is_global(ip)

\* does the drain loop of cleanup_peers skip the entry at key ip
Unroutable(c, ip) ==
    \/ ~is_global(ip)
    \/ (c.routable_ip # NoIp /\ ip = c.routable_ip)

\* slip: cleanup keeps only the bootstrap records, forgetting the active ones
InKeepBootstrapOnly(p) == p.bootstrap

\* slip: cleanup keeps only the active records, forgetting the bootstrap ones
InKeepActiveOnly(p) == is_active(p)

InKeep(p) == p.bootstrap \/ is_active(p)
InBanned(p) == ~InKeep(p) /\ p.banned
InIdle(p) == ~InKeep(p) /\ ~p.banned /\ p.advertised

\* cleanup_peers(cfg, peers, opt_new_peers): the directories it can leave,
\* one per drain order of the HashMap and per outcome of the unstable sort.
\* opt_new_peers = None is the empty list (merge never passes Some(empty)).
cleanup_peers(c, ps0, new_peers) ==
    LET f == FilterNewPeers(c, ps0, new_peers, 1, <<>>)
        ps == f.peers
        res_new_peers == [k \in 1..Len(f.ips) |-> NewPeerInfo(f.ips[k])]
    IN UNION {
         LET drained == [k \in 1..Len(d) |-> ps[d[k]]]
             Kept(p) == ~Unroutable(c, p.ip) /\ InKeep(p)
             Bann(p) == ~Unroutable(c, p.ip) /\ InBanned(p)
             Idle(p) == ~Unroutable(c, p.ip) /\ InIdle(p)
             keep_peers == SelectSeq(drained, Kept)
             banned_peers == SelectSeq(drained, Bann)
             idle_peers == truncate(
                 sort_by_key(SelectSeq(drained, Idle) \o res_new_peers,
                             "AliveDescFailureAsc"),
                 c.max_idle_peers)
         IN { FromVec(keep_peers \o truncate(b, c.max_banned_peers) \o idle_peers) :
                b \in sort_unstable_by_key(banned_peers, "FailureDescAliveAsc") }
         : d \in Orderings(DOMAIN ps) }

None == <<>>

(***************************************************************************)
(* The database as a value, and what a call returns.                       *)
(***************************************************************************)
Self ==
    [peers |-> peers,
     active_out_connection_attempts |-> active_out_connection_attempts,
     active_out_connections |-> active_out_connections,
     active_in_connections |-> active_in_connections]

\* a call's outcome: the database it leaves, its result, and whether it put a
\* snapshot in the watch channel
Outcome(db, res, sent) == [db |-> db, res |-> res, sent |-> sent]

\* request_dump on the database db, then return res: the send fails when the
\* receiver of the watch channel is gone
request_dump(db, res) ==
    IF saver_watch.rx_open
    THEN Outcome(db, res, TRUE)
    ELSE Outcome(db, "ChannelError", FALSE)

\* db after cleanup_peers(&self.cfg, &mut self.peers, None)
Cleaned(db) == {[db EXCEPT !.peers = q] : q \in cleanup_peers(cfg, db.peers, None)}

\* the `if !peer.is_active() && !peer.bootstrap { cleanup_peers(..) }` of the
\* operations that can leave a record without connections
CleanedIfIdle(db, ip) ==
    IF ~is_active(db.peers[ip]) /\ ~db.peers[ip].bootstrap
    THEN Cleaned(db)
    ELSE {db}

\* slip: the attempt cap is left out of the minimum
get_available_out_connection_attempts_target_only ==
    saturating_sub(saturating_sub(cfg.target_out_connections,
                                  active_out_connection_attempts),
                   active_out_connections)

\* slip: only the attempt cap limits the new attempts
get_available_out_connection_attempts_cap_only ==
    saturating_sub(cfg.max_out_connnection_attempts,
                   active_out_connection_attempts)

get_available_out_connection_attempts ==
    Min(saturating_sub(saturating_sub(cfg.target_out_connections,
                                      active_out_connection_attempts),
                       active_out_connections),
        saturating_sub(cfg.max_out_connnection_attempts,
                       active_out_connection_attempts))

\* slip: the aggregate counter is incremented before the record is looked up
new_out_connection_attempt_counts_first(ip) ==
    IF ~is_global(ip)
    THEN {Outcome(Self, "InvalidIpError", FALSE)}
    ELSE IF get_available_out_connection_attempts = 0
    THEN {Outcome(Self, "ToManyConnectionAttempt", FALSE)}
    ELSE IF ip \notin DOMAIN peers
    THEN {Outcome([Self EXCEPT !.active_out_connection_attempts = @ + 1],
                  "PeerInfoNotFoundError", FALSE)}
    ELSE {Outcome([Self EXCEPT
                     !.peers[ip].active_out_connection_attempts = @ + 1,
                     !.active_out_connection_attempts = @ + 1],
                  "Ok", FALSE)}

\* slip: the record is looked up before the attempt slots are counted
new_out_connection_attempt_lookup_first(ip) ==
    IF ~is_global(ip)
    THEN {Outcome(Self, "InvalidIpError", FALSE)}
    ELSE IF ip \notin DOMAIN peers
    THEN {Outcome(Self, "PeerInfoNotFoundError", FALSE)}
    ELSE IF get_available_out_connection_attempts = 0
    THEN {Outcome(Self, "ToManyConnectionAttempt", FALSE)}
    ELSE {Outcome([Self EXCEPT
                     !.peers[ip].active_out_connection_attempts = @ + 1,
                     !.active_out_connection_attempts = @ + 1],
                  "Ok", FALSE)}

new_out_connection_attempt(ip) ==
    IF ~is_global(ip)
    THEN {Outcome(Self, "InvalidIpError", FALSE)}
    ELSE IF get_available_out_connection_attempts = 0
    THEN {Outcome(Self, "ToManyConnectionAttempt", FALSE)}
    ELSE IF ip \notin DOMAIN peers
    THEN {Outcome(Self, "PeerInfoNotFoundError", FALSE)}
    ELSE {Outcome([Self EXCEPT
                     !.peers[ip].active_out_connection_attempts = @ + 1,
                     !.active_out_connection_attempts = @ + 1],
                  "Ok", FALSE)}

merge_candidate_peers(new_peers) ==
    IF new_peers = <<>>
    THEN {Outcome(Self, "Ok", FALSE)}
    ELSE {request_dump([Self EXCEPT !.peers = q], "Ok") :
            q \in cleanup_peers(cfg, peers, new_peers)}

peer_alive(ip) ==
    IF ip \notin DOMAIN peers
    THEN {Outcome(Self, "PeerInfoNotFoundError", FALSE)}
    ELSE {Outcome(Self, "TimeError", FALSE),
          request_dump([Self EXCEPT !.peers[ip].last_alive = now], "Ok")}

peer_failed(ip) ==
    IF ip \notin DOMAIN peers
    THEN {Outcome(Self, "PeerInfoNotFoundError", FALSE)}
    ELSE {Outcome(Self, "TimeError", FALSE),
          request_dump([Self EXCEPT !.peers[ip].last_failure = now], "Ok")}

\* slip: a record that is already banned is left as it is
peer_banned_once(ip) ==
    IF ip \notin DOMAIN peers
    THEN {Outcome(Self, "PeerInfoNotFoundError", FALSE)}
    ELSE LET d1 == [Self EXCEPT !.peers[ip].last_failure = now]
         IN {Outcome(Self, "TimeError", FALSE)} \cup
            (IF ~d1.peers[ip].banned
             THEN {request_dump(d, "Ok") :
                     d \in CleanedIfIdle([d1 EXCEPT !.peers[ip].banned = TRUE], ip)}
             ELSE {request_dump(Self, "Ok")})

peer_banned(ip) ==
    IF ip \notin DOMAIN peers
    THEN {Outcome(Self, "PeerInfoNotFoundError", FALSE)}
    ELSE LET d1 == [Self EXCEPT !.peers[ip].last_failure = now]
         IN {Outcome(Self, "TimeError", FALSE)} \cup
            (IF ~d1.peers[ip].banned
             THEN {request_dump(d, "Ok") :
                     d \in CleanedIfIdle([d1 EXCEPT !.peers[ip].banned = TRUE], ip)}
             ELSE {request_dump(d1, "Ok")})

\* slip: a snapshot is requested whatever state the record is left in
out_connection_closed_always_dumps(ip) ==
    IF active_out_connections = 0
    THEN {Outcome(Self, "CloseConnectionWithNoConnectionToClose", FALSE)}
    ELSE IF ip \notin DOMAIN peers
    THEN {Outcome(Self, "PeerInfoNotFoundError", FALSE)}
    ELSE IF peers[ip].active_out_connections = 0
    THEN {Outcome(Self, "CloseConnectionWithNoConnectionToClose", FALSE)}
    ELSE LET d1 == [Self EXCEPT !.active_out_connections = @ - 1,
                                !.peers[ip].active_out_connections = @ - 1]
         IN {request_dump(d, "Ok") : d \in CleanedIfIdle(d1, ip)}

out_connection_closed(ip) ==
    IF active_out_connections = 0
    THEN {Outcome(Self, "CloseConnectionWithNoConnectionToClose", FALSE)}
    ELSE IF ip \notin DOMAIN peers
    THEN {Outcome(Self, "PeerInfoNotFoundError", FALSE)}
    ELSE IF peers[ip].active_out_connections = 0
    THEN {Outcome(Self, "CloseConnectionWithNoConnectionToClose", FALSE)}
    ELSE LET d1 == [Self EXCEPT !.active_out_connections = @ - 1,
                                !.peers[ip].active_out_connections = @ - 1]
         IN IF ~is_active(d1.peers[ip]) /\ ~d1.peers[ip].bootstrap
            THEN {request_dump(d, "Ok") : d \in Cleaned(d1)}
            ELSE {Outcome(d1, "Ok", FALSE)}

in_connection_closed(ip) ==
    IF active_in_connections = 0
    THEN {Outcome(Self, "CloseConnectionWithNoConnectionToClose", FALSE)}
    ELSE IF ip \notin DOMAIN peers
    THEN {Outcome(Self, "PeerInfoNotFoundError", FALSE)}
    ELSE IF peers[ip].active_in_connections = 0
    THEN {Outcome(Self, "CloseConnectionWithNoConnectionToClose", FALSE)}
    ELSE LET d1 == [Self EXCEPT !.active_in_connections = @ - 1,
                                !.peers[ip].active_in_connections = @ - 1]
         IN IF ~is_active(d1.peers[ip]) /\ ~d1.peers[ip].bootstrap
            THEN {request_dump(d, "Ok") : d \in Cleaned(d1)}
            ELSE {Outcome(d1, "Ok", FALSE)}

\* slip: the successful attempt is never taken off the attempt counters
try_out_connection_attempt_success_keeps_attempt(ip) ==
    IF active_out_connection_attempts = 0
    THEN {Outcome(Self, "ToManyConnectionAttempt", FALSE)}
    ELSE IF active_out_connections >= cfg.target_out_connections
    THEN {Outcome(Self, "false", FALSE)}
    ELSE IF ip \notin DOMAIN peers
    THEN {Outcome(Self, "PeerInfoNotFoundError", FALSE)}
    ELSE IF peers[ip].active_out_connection_attempts = 0
    THEN {Outcome(Self, "ToManyConnectionAttempt", FALSE)}
    ELSE LET d1 == [Self EXCEPT !.peers[ip].advertised = TRUE]
         IN IF d1.peers[ip].banned
            THEN {Outcome(d1, "TimeError", FALSE)} \cup
                 {request_dump(d, "false") :
                    d \in CleanedIfIdle(
                            [d1 EXCEPT !.peers[ip].last_failure = now], ip)}
            ELSE {request_dump([d1 EXCEPT !.active_out_connections = @ + 1,
                                          !.peers[ip].active_out_connections = @ + 1],
                               "true")}

\* slip: the banned path forgets to stamp last_failure
try_out_connection_attempt_success_no_stamp(ip) ==
    IF active_out_connection_attempts = 0
    THEN {Outcome(Self, "ToManyConnectionAttempt", FALSE)}
    ELSE IF active_out_connections >= cfg.target_out_connections
    THEN {Outcome(Self, "false", FALSE)}
    ELSE IF ip \notin DOMAIN peers
    THEN {Outcome(Self, "PeerInfoNotFoundError", FALSE)}
    ELSE IF peers[ip].active_out_connection_attempts = 0
    THEN {Outcome(Self, "ToManyConnectionAttempt", FALSE)}
    ELSE LET d1 == [Self EXCEPT !.active_out_connection_attempts = @ - 1,
                                !.peers[ip].active_out_connection_attempts = @ - 1,
                                !.peers[ip].advertised = TRUE]
         IN IF d1.peers[ip].banned
            THEN {Outcome(d1, "TimeError", FALSE)} \cup
                 {request_dump(d, "false") : d \in CleanedIfIdle(d1, ip)}
            ELSE {request_dump([d1 EXCEPT !.active_out_connections = @ + 1,
                                          !.peers[ip].active_out_connections = @ + 1],
                               "true")}

try_out_connection_attempt_success(ip) ==
    IF active_out_connection_attempts = 0
    THEN {Outcome(Self, "ToManyConnectionAttempt", FALSE)}
    ELSE IF active_out_connections >= cfg.target_out_connections
    THEN {Outcome(Self, "false", FALSE)}
    ELSE IF ip \notin DOMAIN peers
    THEN {Outcome(Self, "PeerInfoNotFoundError", FALSE)}
    ELSE IF peers[ip].active_out_connection_attempts = 0
    THEN {Outcome(Self, "ToManyConnectionAttempt", FALSE)}
    ELSE LET d1 == [Self EXCEPT !.active_out_connection_attempts = @ - 1,
                                !.peers[ip].active_out_connection_attempts = @ - 1,
                                !.peers[ip].advertised = TRUE]
         IN IF d1.peers[ip].banned
            THEN {Outcome(d1, "TimeError", FALSE)} \cup
                 {request_dump(d, "false") :
                    d \in CleanedIfIdle(
                            [d1 EXCEPT !.peers[ip].last_failure = now], ip)}
            ELSE {request_dump([d1 EXCEPT !.active_out_connections = @ + 1,
                                          !.peers[ip].active_out_connections = @ + 1],
                               "true")}

\* slip: the record is looked up before the aggregate attempt counter is
\* tested
out_connection_attempt_failed_lookup_first(ip) ==
    IF ip \notin DOMAIN peers
    THEN {Outcome(Self, "PeerInfoNotFoundError", FALSE)}
    ELSE IF active_out_connection_attempts = 0
    THEN {Outcome(Self, "ToManyConnectionFailure", FALSE)}
    ELSE IF peers[ip].active_out_connection_attempts = 0
    THEN {Outcome(Self, "ToManyConnectionFailure", FALSE)}
    ELSE LET d1 == [Self EXCEPT !.active_out_connection_attempts = @ - 1,
                                !.peers[ip].active_out_connection_attempts = @ - 1]
         IN {Outcome(d1, "TimeError", FALSE)} \cup
            {request_dump(d, "Ok") :
               d \in CleanedIfIdle(
                       [d1 EXCEPT !.peers[ip].last_failure = now], ip)}

out_connection_attempt_failed(ip) ==
    IF active_out_connection_attempts = 0
    THEN {Outcome(Self, "ToManyConnectionFailure", FALSE)}
    ELSE IF ip \notin DOMAIN peers
    THEN {Outcome(Self, "PeerInfoNotFoundError", FALSE)}
    ELSE IF peers[ip].active_out_connection_attempts = 0
    THEN {Outcome(Self, "ToManyConnectionFailure", FALSE)}
    ELSE LET d1 == [Self EXCEPT !.active_out_connection_attempts = @ - 1,
                                !.peers[ip].active_out_connection_attempts = @ - 1]
         IN {Outcome(d1, "TimeError", FALSE)} \cup
            {request_dump(d, "Ok") :
               d \in CleanedIfIdle(
                       [d1 EXCEPT !.peers[ip].last_failure = now], ip)}

\* HashMap::entry(ip).or_insert(p)
or_insert(ps, ip, p) ==
    IF ip \in DOMAIN ps
    THEN ps
    ELSE [k \in DOMAIN ps \cup {ip} |-> IF k = ip THEN p ELSE ps[k]]

\* slip: off by one in the global inbound cap
no_in_slot_off_by_one(ip) ==
    \/ ~is_global(ip)
    \/ active_in_connections > cfg.max_in_connections
    \/ cfg.max_in_connections_per_ip = 0

\* the first refusal of try_new_in_connection
no_in_slot(ip) ==
    \/ ~is_global(ip)
    \/ active_in_connections >= cfg.max_in_connections
    \/ cfg.max_in_connections_per_ip = 0

\* slip: the per-address cap is tested with > instead of >=
try_new_in_connection_per_ip_off_by_one(ip) ==
    IF no_in_slot(ip)
    THEN {Outcome(Self, "false", FALSE)}
    ELSE IF cfg.routable_ip # NoIp /\ ip = cfg.routable_ip
    THEN {Outcome(Self, "false", FALSE)}
    ELSE LET d1 == [Self EXCEPT !.peers = or_insert(peers, ip,
                        PeerInfo(ip, FALSE, FALSE, NoTime, NoTime, FALSE, 0, 0, 0))]
         IN IF d1.peers[ip].banned
            THEN {Outcome(d1, "TimeError", FALSE),
                  request_dump([d1 EXCEPT !.peers[ip].last_failure = now],
                               "false")}
            ELSE IF d1.peers[ip].active_in_connections > cfg.max_in_connections_per_ip
            THEN {request_dump(d1, "false")}
            ELSE {request_dump([d1 EXCEPT !.active_in_connections = @ + 1,
                                          !.peers[ip].active_in_connections = @ + 1],
                               "true")}

\* slip: the banned test is missing, a banned record is only held to the
\* per-address cap
try_new_in_connection_admits_banned(ip) ==
    IF no_in_slot(ip)
    THEN {Outcome(Self, "false", FALSE)}
    ELSE IF cfg.routable_ip # NoIp /\ ip = cfg.routable_ip
    THEN {Outcome(Self, "false", FALSE)}
    ELSE LET d1 == [Self EXCEPT !.peers = or_insert(peers, ip,
                        PeerInfo(ip, FALSE, FALSE, NoTime, NoTime, FALSE, 0, 0, 0))]
         IN IF d1.peers[ip].active_in_connections >= cfg.max_in_connections_per_ip
            THEN {request_dump(d1, "false")}
            ELSE {request_dump([d1 EXCEPT !.active_in_connections = @ + 1,
                                          !.peers[ip].active_in_connections = @ + 1],
                               "true")}

\* slip: the per-address cap is reached one connection early
try_new_in_connection_per_ip_one_short(ip) ==
    IF no_in_slot(ip)
    THEN {Outcome(Self, "false", FALSE)}
    ELSE IF cfg.routable_ip # NoIp /\ ip = cfg.routable_ip
    THEN {Outcome(Self, "false", FALSE)}
    ELSE LET d1 == [Self EXCEPT !.peers = or_insert(peers, ip,
                        PeerInfo(ip, FALSE, FALSE, NoTime, NoTime, FALSE, 0, 0, 0))]
         IN IF d1.peers[ip].banned
            THEN {Outcome(d1, "TimeError", FALSE),
                  request_dump([d1 EXCEPT !.peers[ip].last_failure = now],
                               "false")}
            ELSE IF d1.peers[ip].active_in_connections + 1 >= cfg.max_in_connections_per_ip
            THEN {request_dump(d1, "false")}
            ELSE {request_dump([d1 EXCEPT !.active_in_connections = @ + 1,
                                          !.peers[ip].active_in_connections = @ + 1],
                               "true")}

try_new_in_connection(ip) ==
    IF no_in_slot(ip)
    THEN {Outcome(Self, "false", FALSE)}
    ELSE IF cfg.routable_ip # NoIp /\ ip = cfg.routable_ip
    THEN {Outcome(Self, "false", FALSE)}
    ELSE LET d1 == [Self EXCEPT !.peers = or_insert(peers, ip,
                        PeerInfo(ip, FALSE, FALSE, NoTime, NoTime, FALSE, 0, 0, 0))]
         IN IF d1.peers[ip].banned
            THEN {Outcome(d1, "TimeError", FALSE),
                  request_dump([d1 EXCEPT !.peers[ip].last_failure = now],
                               "false")}
            ELSE IF d1.peers[ip].active_in_connections >= cfg.max_in_connections_per_ip
            THEN {request_dump(d1, "false")}
            ELSE {request_dump([d1 EXCEPT !.active_in_connections = @ + 1,
                                          !.peers[ip].active_in_connections = @ + 1],
                               "true")}

(***************************************************************************)
(* Construction: PeerInfoDatabase::new loads the peers file, runs          *)
(* cleanup_peers and starts with the three aggregate counters at zero.     *)
(***************************************************************************)
\* Option<UTime> in JSON: null or the number, here no or one element
OptionToJson(t) == IF t = NoTime THEN <<>> ELSE <<t>>
OptionFromJson(j) == IF j = <<>> THEN NoTime ELSE j[1]

\* the json!({..}) object dump_peers writes for a record: six keys, the
\* counters are left out
ToJson(p) ==
    [ip |-> p.ip, banned |-> p.banned, bootstrap |-> p.bootstrap,
     last_alive |-> OptionToJson(p.last_alive),
     last_failure |-> OptionToJson(p.last_failure),
     advertised |-> p.advertised]

\* an object of a peers file that carries the three counter keys as well
WithCounters(e, att, out, inn) ==
    [ip |-> e.ip, banned |-> e.banned, bootstrap |-> e.bootstrap,
     last_alive |-> e.last_alive, last_failure |-> e.last_failure,
     advertised |-> e.advertised,
     active_out_connection_attempts |-> att,
     active_out_connections |-> out,
     active_in_connections |-> inn]

\* Deserialize for PeerInfo: a counter key that is absent gets
\* usize::default, one that is present is taken as it is
FromJson(e) ==
    LET counter(key) == IF key \in DOMAIN e THEN e[key] ELSE 0
    IN PeerInfo(e.ip, e.banned, e.bootstrap,
                OptionFromJson(e.last_alive), OptionFromJson(e.last_failure),
                e.advertised,
                counter("active_out_connection_attempts"),
                counter("active_out_connections"),
                counter("active_in_connections"))

\* serde_json::from_str(..).into_iter().map(|p| (p.ip, p)).collect()
Load(entries) == FromVec([k \in 1..Len(entries) |-> FromJson(entries[k])])

\* slip: the filter of dump_peers forgets the bootstrap records
is_dumped_flagged_only(p) == p.banned \/ p.advertised

\* the filter of dump_peers
is_dumped(p) == p.banned \/ p.advertised \/ p.bootstrap

\* the arrays dump_peers(ps, ..) can write, one per order of peers.values()
dump_peers(ps) ==
    {[k \in 1..Len(o) |-> ToJson(ps[o[k]])] :
        o \in Orderings({ip \in DOMAIN ps : is_dumped(ps[ip])})}

\* the peers file after a successful write of the array entries, and a file
\* a failed write has left unreadable
Written(entries) == [valid |-> TRUE, entries |-> entries]
Torn == [valid |-> FALSE, entries |-> <<>>]

\* objects of a peers file as dump_peers writes them: no counter keys, here
\* without timestamps
FileRecord(ip, banned, bootstrap, advertised) ==
    ToJson(PeerInfo(ip, banned, bootstrap, NoTime, NoTime, advertised, 0, 0, 0))

\* the saver task as spawned: waiting in select!, nothing to dump, the
\* initial sleep of 0 ms elapsed
SaverSpawned ==
    [pc |-> "select", need_dump |-> FALSE, delay |-> "elapsed",
     to_dump |-> <<>>, version |-> 0]

\* stop() has not been called
NotStopped ==
    [pc |-> "none", res |-> "none", dumps |-> 0, dumped |-> FALSE,
     waited |-> FALSE]

\* nothing has happened yet
NoHist == [calls |-> 0, sends |-> 0, written |-> 0, on_torn |-> FALSE]

\* the saver task, stop() and the history at construction
PersistenceInit ==
    /\ saver = SaverSpawned
    /\ stop_call = NotStopped
    /\ hist = NoHist

FirstIp == LocalIp + 1
LastIp == LocalIp + NumGlobalIps

\* Two peers: routable_ip is a non-global address (as in the tests), so every
\* global address can have a record; the out target (1) is below the attempt
\* cap (2) and the global inbound cap (1) is reached before a second address
\* connects; one idle and one banned record are retained.  The clock stands at
\* the end of its range.
PairConfig == NetworkConfig(LocalIp, 1, 2, 1, 1, 1, 1, 1, 1)
PairFiles ==
    {<<FileRecord(LocalIp, FALSE, TRUE, FALSE)>>
        \o [k \in 1..NumGlobalIps |-> FileRecord(LocalIp + k, FALSE, FALSE, TRUE)],
     [k \in 1..NumGlobalIps |-> FileRecord(LocalIp + k, TRUE, TRUE, FALSE)],
     <<FileRecord(FirstIp, FALSE, TRUE, FALSE),
       FileRecord(LastIp, FALSE, FALSE, FALSE)>>}

\* One clock: routable_ip is the last global address; the attempt cap (1) is
\* below the out target (2) and the per-address inbound cap (1) below the
\* global one (2); the clock starts at 0 and runs.
ClockConfig == NetworkConfig(LastIp, 2, 1, 2, 1, 1, 1, 2, 0)
ClockFiles ==
    {<<>>,
     <<FileRecord(LastIp, FALSE, TRUE, FALSE),
       FileRecord(FirstIp, FALSE, FALSE, TRUE)>>,
     <<FileRecord(FirstIp, TRUE, TRUE, FALSE)>>}

\* No inbound: routable_ip unset, per-address inbound cap 0, nothing retained
\* idle or banned, nothing advertised.
ClosedConfig == NetworkConfig(NoIp, 1, 1, 1, 0, 0, 0, 0, 1)
ClosedFiles ==
    {[k \in 1..NumGlobalIps |-> FileRecord(LocalIp + k, FALSE, TRUE, TRUE)]}

\* the constructions explored: configuration, peers file, clock at construction
Scenarios ==
    {[cfg |-> PairConfig, file |-> f, start |-> MaxTime] : f \in PairFiles}
    \cup {[cfg |-> ClockConfig, file |-> f, start |-> 0] : f \in ClockFiles}
    \cup {[cfg |-> ClosedConfig, file |-> f, start |-> MaxTime] : f \in ClosedFiles}

\* no call is under observation
NoCall == [op |-> "none", ip |-> NoIp, new_peers |-> <<>>, res |-> "none",
           sent |-> FALSE]

Init ==
    /\ \E sc \in Scenarios :
        /\ cfg = sc.cfg
        /\ file = Written(sc.file)
        /\ peers \in cleanup_peers(sc.cfg, Load(file.entries), None)
        /\ now = sc.start
    /\ PersistenceInit
    /\ active_out_connection_attempts = 0
    /\ active_out_connections = 0
    /\ active_in_connections = 0
    /\ saver_watch = [value |-> peers, changed |-> FALSE, rx_open |-> TRUE]
    /\ ever_banned = {}
    /\ ret = NoCall

(***************************************************************************)
(* One action per public operation.  A call either goes unobserved and the *)
(* run goes on, or it is the call the run is stopped at: ret then holds    *)
(* the call and what it returned, next to the state it left.               *)
(***************************************************************************)
Return(op, ip, new_peers, o) ==
    /\ peers' = o.db.peers
    /\ active_out_connection_attempts' = o.db.active_out_connection_attempts
    /\ active_out_connections' = o.db.active_out_connections
    /\ active_in_connections' = o.db.active_in_connections
    /\ saver_watch' = IF o.sent
                      THEN [saver_watch EXCEPT !.value = o.db.peers,
                                               !.changed = TRUE]
                      ELSE saver_watch
    /\ ever_banned' = IF op = "peer_banned" /\ o.res = "Ok"
                      THEN ever_banned \cup {ip}
                      ELSE ever_banned
    /\ \/ ret' = ret
       \/ ret' = [op |-> op, ip |-> ip, new_peers |-> new_peers, res |-> o.res,
                  sent |-> o.sent]
    /\ UNCHANGED <<cfg, now, file, saver, stop_call, hist>>

\* the candidate lists handed to merge_candidate_peers
NewPeersLists == UNION {[1..n -> IPs] : n \in 0..MaxNewPeers}

NewOutConnectionAttempt ==
    /\ ret = NoCall
    /\ \E ip \in IPs : \E o \in new_out_connection_attempt(ip) :
        Return("new_out_connection_attempt", ip, <<>>, o)

TryOutConnectionAttemptSuccess ==
    /\ ret = NoCall
    /\ \E ip \in IPs : \E o \in try_out_connection_attempt_success(ip) :
        Return("try_out_connection_attempt_success", ip, <<>>, o)

OutConnectionAttemptFailed ==
    /\ ret = NoCall
    /\ \E ip \in IPs : \E o \in out_connection_attempt_failed(ip) :
        Return("out_connection_attempt_failed", ip, <<>>, o)

OutConnectionClosed ==
    /\ ret = NoCall
    /\ \E ip \in IPs : \E o \in out_connection_closed(ip) :
        Return("out_connection_closed", ip, <<>>, o)

InConnectionClosed ==
    /\ ret = NoCall
    /\ \E ip \in IPs : \E o \in in_connection_closed(ip) :
        Return("in_connection_closed", ip, <<>>, o)

TryNewInConnection ==
    /\ ret = NoCall
    /\ \E ip \in IPs : \E o \in try_new_in_connection(ip) :
        Return("try_new_in_connection", ip, <<>>, o)

PeerAlive ==
    /\ ret = NoCall
    /\ \E ip \in IPs : \E o \in peer_alive(ip) :
        Return("peer_alive", ip, <<>>, o)

PeerFailed ==
    /\ ret = NoCall
    /\ \E ip \in IPs : \E o \in peer_failed(ip) :
        Return("peer_failed", ip, <<>>, o)

PeerBanned ==
    /\ ret = NoCall
    /\ \E ip \in IPs : \E o \in peer_banned(ip) :
        Return("peer_banned", ip, <<>>, o)

MergeCandidatePeers ==
    /\ ret = NoCall
    /\ \E new_peers \in NewPeersLists : \E o \in merge_candidate_peers(new_peers) :
        Return("merge_candidate_peers", NoIp, new_peers, o)

\* time passes between two calls
Tick ==
    /\ ret = NoCall
    /\ now < MaxTime
    /\ now' = now + 1
    /\ UNCHANGED <<cfg, peers, active_out_connection_attempts,
                   active_out_connections, active_in_connections,
                   saver_watch, ever_banned, ret,
                   file, saver, stop_call, hist>>

Next ==
    \/ NewOutConnectionAttempt
    \/ TryOutConnectionAttemptSuccess
    \/ OutConnectionAttemptFailed
    \/ OutConnectionClosed
    \/ InConnectionClosed
    \/ TryNewInConnection
    \/ PeerAlive
    \/ PeerFailed
    \/ PeerBanned
    \/ MergeCandidatePeers
    \/ Tick

Spec == Init /\ [][Next]_vars

(***************************************************************************)
(* Properties                                                              *)
(***************************************************************************)
RECURSIVE SumOver(_, _, _)
SumOver(ps, S, counter) ==
    IF S = {} THEN 0
    ELSE LET ip == CHOOSE x \in S : TRUE
         IN ps[ip][counter] + SumOver(ps, S \ {ip}, counter)

Sum(ps, counter) == SumOver(ps, DOMAIN ps, counter)

ErrorResults ==
    {"InvalidIpError", "PeerInfoNotFoundError", "ToManyConnectionAttempt",
     "ToManyConnectionFailure", "CloseConnectionWithNoConnectionToClose",
     "ChannelError", "TimeError"}

\* C1: after every call, whether it returned a value or an error, each
\* aggregate counter equals the sum of that counter over the records of the
\* directory.
C1_AggregatesEqualSums ==
    /\ active_out_connection_attempts = Sum(peers, "active_out_connection_attempts")
    /\ active_out_connections = Sum(peers, "active_out_connections")
    /\ active_in_connections = Sum(peers, "active_in_connections")

\* C1 witness: a call has just returned an error while two records have
\* connections or attempts.
C1_Witness ==
    /\ ret.res \in ErrorResults
    /\ Cardinality({ip \in DOMAIN peers : is_active(peers[ip])}) >= 2

\* C2: the aggregate number of in-flight outbound attempts never exceeds
\* max_out_connnection_attempts.
C2_AttemptsWithinCap ==
    active_out_connection_attempts <= cfg.max_out_connnection_attempts

\* C2 witness: the attempt cap, lower than the out target, is reached and a
\* further attempt has been refused.
C2_Witness ==
    /\ cfg.max_out_connnection_attempts < cfg.target_out_connections
    /\ active_out_connection_attempts = cfg.max_out_connnection_attempts
    /\ ret.op = "new_out_connection_attempt"
    /\ ret.res = "ToManyConnectionAttempt"

\* C3: the aggregate number of inbound connections never exceeds
\* max_in_connections, and no record has more than max_in_connections_per_ip
\* inbound connections.
C3_InboundWithinCaps ==
    /\ active_in_connections <= cfg.max_in_connections
    /\ \A ip \in DOMAIN peers :
         peers[ip].active_in_connections <= cfg.max_in_connections_per_ip

\* C3 witness: an inbound connection from a global address has been refused
\* with the global cap and that record's per-address cap both reached.
C3_Witness ==
    /\ ret.op = "try_new_in_connection"
    /\ ret.res = "false"
    /\ ret.ip \in DOMAIN peers
    /\ active_in_connections = cfg.max_in_connections
    /\ peers[ret.ip].active_in_connections = cfg.max_in_connections_per_ip
    /\ cfg.max_in_connections_per_ip > 0

\* C4: the directory never holds a record for routable_ip nor for an address
\* that is not globally routable.
C4_OnlyRoutableForeignIps ==
    \A ip \in DOMAIN peers :
        /\ is_global(ip)
        /\ cfg.routable_ip = NoIp \/ ip # cfg.routable_ip
        /\ peers[ip].ip = ip

\* C4 witness: a merge of a non-global address and of our own, global,
\* address has returned.
C4_Witness ==
    /\ ret.op = "merge_candidate_peers"
    /\ ret.res = "Ok"
    /\ is_global(cfg.routable_ip)
    /\ ret.new_peers = <<LocalIp, cfg.routable_ip>>

\* a record nothing retains: without connections or attempts, and neither
\* bootstrap, advertised nor banned
Useless(p) == ~is_active(p) /\ ~p.bootstrap /\ ~p.advertised /\ ~p.banned

\* C5: after construction and after every call, the directory holds no record
\* that is at once inactive, non-bootstrap, non-advertised and non-banned.
C5_NoUselessRecord == \A ip \in DOMAIN peers : ~Useless(peers[ip])

DatabaseUnchanged ==
    /\ peers' = peers
    /\ active_out_connection_attempts' = active_out_connection_attempts
    /\ active_out_connections' = active_out_connections
    /\ active_in_connections' = active_in_connections

\* C7: a call that returns an error of any kind leaves the directory and the
\* three aggregate counters as they were before the call.
C7_ErrorsChangeNothing ==
    [][ret'.res \in ErrorResults => DatabaseUnchanged]_vars

\* the caps cleanup_peers enforces, on the records it counts (inactive and
\* non-bootstrap)
NonBootstrapClassesWithinCaps(ps) ==
    /\ Cardinality({ip \in DOMAIN ps : InBanned(ps[ip])}) <= cfg.max_banned_peers
    /\ Cardinality({ip \in DOMAIN ps : InIdle(ps[ip])}) <= cfg.max_idle_peers

\* the step is a call during which cleanup_peers ran: a merge of a non-empty
\* list, or a call that returned without error after leaving its record
\* inactive and non-bootstrap (for peer_banned: a record not banned before)
CleanupRanInStep ==
    LET ip == ret'.ip
        LeftIdle == \/ ip \notin DOMAIN peers'
                    \/ (~is_active(peers'[ip]) /\ ~peers'[ip].bootstrap)
    IN \/ ret'.op = "merge_candidate_peers" /\ ret'.new_peers # <<>>
       \/ /\ ret'.op \in {"out_connection_closed", "in_connection_closed",
                          "out_connection_attempt_failed"}
          /\ ret'.res = "Ok" /\ LeftIdle
       \/ /\ ret'.op = "try_out_connection_attempt_success"
          /\ ret'.res = "false" /\ ret'.sent /\ LeftIdle
       \/ /\ ret'.op = "peer_banned"
          /\ ret'.res = "Ok" /\ ~peers[ip].banned /\ LeftIdle

ContractErrors ==
    {"InvalidIpError", "PeerInfoNotFoundError", "ToManyConnectionAttempt",
     "ToManyConnectionFailure", "CloseConnectionWithNoConnectionToClose"}

\* C8: a call that returns a caller-contract error leaves the directory and
\* the aggregate counters unchanged and sends no snapshot.
C8_ContractErrorsChangeNothing ==
    [][ret'.res \in ContractErrors =>
         DatabaseUnchanged /\ ~ret'.sent /\ saver_watch' = saver_watch]_vars

\* C8 witness: out_connection_closed has returned "unknown peer" while some
\* outbound connection was open.
C8_Witness ==
    /\ ret.op = "out_connection_closed"
    /\ ret.res = "PeerInfoNotFoundError"
    /\ active_out_connections > 0

\* C9: new_out_connection_attempt(ip) returns InvalidIp for a non-global ip,
\* else TooManyAttempts when no attempt slot is available, else UnknownPeer
\* when ip has no record, else succeeds; on success the record's and the
\* aggregate's attempt counters grow by one and nothing else changes; no
\* snapshot is sent in any case.
C9_NewOutConnectionAttempt ==
    [][ret'.op = "new_out_connection_attempt" =>
         LET ip == ret'.ip
             expected ==
                 IF ~is_global(ip) THEN "InvalidIpError"
                 ELSE IF get_available_out_connection_attempts = 0
                 THEN "ToManyConnectionAttempt"
                 ELSE IF ip \notin DOMAIN peers THEN "PeerInfoNotFoundError"
                 ELSE "Ok"
         IN /\ ret'.res = expected
            /\ ~ret'.sent
            /\ saver_watch' = saver_watch
            /\ active_out_connections' = active_out_connections
            /\ active_in_connections' = active_in_connections
            /\ IF expected = "Ok"
               THEN /\ active_out_connection_attempts'
                         = active_out_connection_attempts + 1
                    /\ peers' = [peers EXCEPT
                                   ![ip].active_out_connection_attempts = @ + 1]
               ELSE /\ active_out_connection_attempts'
                         = active_out_connection_attempts
                    /\ peers' = peers]_vars

\* C9 witness: an attempt on a known record has been refused for lack of a
\* slot, attempts being in flight.
C9_Witness ==
    /\ ret.op = "new_out_connection_attempt"
    /\ ret.ip \in DOMAIN peers
    /\ ret.res = "ToManyConnectionAttempt"
    /\ active_out_connection_attempts > 0

\* C10: try_out_connection_attempt_success(ip) returns TooManyAttempts when
\* the aggregate attempt counter is 0, else false without a change when the
\* out target is reached, else UnknownPeer when ip has no record, else
\* TooManyAttempts when the record has no attempt; else, for a record that is
\* not banned, it returns true, takes one attempt off and adds one out
\* connection on the record and on the aggregate, sets advertised and sends a
\* snapshot.
C10_TryOutConnectionAttemptSuccess ==
    [][ret'.op = "try_out_connection_attempt_success" =>
         LET ip == ret'.ip IN
         IF active_out_connection_attempts = 0
         THEN ret'.res = "ToManyConnectionAttempt"
         ELSE IF active_out_connections >= cfg.target_out_connections
         THEN ret'.res = "false" /\ DatabaseUnchanged /\ ~ret'.sent
         ELSE IF ip \notin DOMAIN peers
         THEN ret'.res = "PeerInfoNotFoundError"
         ELSE IF peers[ip].active_out_connection_attempts = 0
         THEN ret'.res = "ToManyConnectionAttempt"
         ELSE ~peers[ip].banned =>
                /\ ret'.res = "true"
                /\ ret'.sent
                /\ saver_watch'.value = peers'
                /\ active_out_connection_attempts'
                     = active_out_connection_attempts - 1
                /\ active_out_connections' = active_out_connections + 1
                /\ active_in_connections' = active_in_connections
                /\ peers' = [peers EXCEPT
                               ![ip].active_out_connection_attempts = @ - 1,
                               ![ip].active_out_connections = @ + 1,
                               ![ip].advertised = TRUE]]_vars

\* C10 witness: the call has returned true for a record that was not
\* advertised before it.
C10_Witness ==
    /\ ret.op = "try_out_connection_attempt_success"
    /\ ret.res = "true"
    /\ ret.sent
    /\ peers[ret.ip].active_out_connections > 0
    /\ saver_watch.value = peers

\* results by which a call reports that the clock or the watch channel failed
InfrastructureErrors == {"TimeError", "ChannelError"}

\* the directories a call can leave after its `if !peer.is_active() &&
\* !peer.bootstrap { cleanup_peers(..) }` on the directory ps
AfterCleanupIfIdle(ps, ip) ==
    IF ~is_active(ps[ip]) /\ ~ps[ip].bootstrap
    THEN cleanup_peers(cfg, ps, None)
    ELSE {ps}

ClosedAsSpecified(ip, counter, agg, agg2) ==
    IF agg = 0
    THEN ret'.res = "CloseConnectionWithNoConnectionToClose"
    ELSE IF ip \notin DOMAIN peers
    THEN ret'.res = "PeerInfoNotFoundError"
    ELSE IF peers[ip][counter] = 0
    THEN ret'.res = "CloseConnectionWithNoConnectionToClose"
    ELSE LET d1 == [peers EXCEPT ![ip][counter] = @ - 1]
         IN /\ ret'.res = "Ok"
            /\ agg2 = agg - 1
            /\ IF ~is_active(d1[ip]) /\ ~d1[ip].bootstrap
               THEN /\ peers' \in cleanup_peers(cfg, d1, None)
                    /\ ret'.sent
                    /\ saver_watch'.value = peers'
                    /\ saver_watch'.changed
               ELSE /\ peers' = d1
                    /\ ~ret'.sent
                    /\ saver_watch' = saver_watch

\* C13: out_connection_closed(ip) and in_connection_closed(ip) fail with
\* CloseWithNoConnection when their aggregate counter is 0, else with
\* UnknownPeer when ip has no record, else with CloseWithNoConnection when the
\* record's counter is 0; else they take one off that counter on record and
\* aggregate, and run cleanup and send a snapshot exactly when the record is
\* left inactive and non-bootstrap; otherwise no snapshot is sent and the
\* membership of the directory is unchanged.
C13_ConnectionClosed ==
    [][/\ ret'.op = "out_connection_closed" =>
            /\ ClosedAsSpecified(ret'.ip, "active_out_connections",
                                 active_out_connections, active_out_connections')
            /\ active_in_connections' = active_in_connections
            /\ active_out_connection_attempts' = active_out_connection_attempts
       /\ ret'.op = "in_connection_closed" =>
            /\ ClosedAsSpecified(ret'.ip, "active_in_connections",
                                 active_in_connections, active_in_connections')
            /\ active_out_connections' = active_out_connections
            /\ active_out_connection_attempts' = active_out_connection_attempts]_vars

\* C13 witness: the last outbound connection of a bootstrap record has been
\* closed: the record stays and no snapshot was sent.
C13_Witness ==
    /\ ret.op = "out_connection_closed"
    /\ ret.res = "Ok"
    /\ ~ret.sent
    /\ ret.ip \in DOMAIN peers
    /\ peers[ret.ip].bootstrap
    /\ ~is_active(peers[ret.ip])

\* the three counters of every record of the directory ps
Counters(ps) ==
    [ip \in DOMAIN ps |->
        <<ps[ip].active_out_connection_attempts,
          ps[ip].active_out_connections,
          ps[ip].active_in_connections>>]

\* the conditions under which an inbound connection from ip is to be accepted
InboundAcceptable(ip) ==
    /\ is_global(ip)
    /\ cfg.routable_ip = NoIp \/ ip # cfg.routable_ip
    /\ active_in_connections < cfg.max_in_connections
    /\ cfg.max_in_connections_per_ip > 0
    /\ ip \in DOMAIN peers =>
         /\ ~peers[ip].banned
         /\ peers[ip].active_in_connections < cfg.max_in_connections_per_ip

\* C14: try_new_in_connection(ip) returns true exactly when ip is global, is
\* not routable_ip, the aggregate inbound count is below max_in_connections,
\* max_in_connections_per_ip > 0 and the record of ip, if any, is not banned
\* and below max_in_connections_per_ip; returning true it adds one inbound
\* connection on record and aggregate, creating a non-advertised, non-banned,
\* non-bootstrap record when there was none; returning false it changes no
\* counter.
C14_TryNewInConnection ==
    [][ret'.op = "try_new_in_connection" =>
         LET ip == ret'.ip
             fresh == PeerInfo(ip, FALSE, FALSE, NoTime, NoTime, FALSE, 0, 0, 0)
             base == IF ip \in DOMAIN peers
                     THEN peers
                     ELSE [k \in DOMAIN peers \cup {ip} |->
                             IF k = ip THEN fresh ELSE peers[k]]
         IN /\ (ret'.res = "true") <=> InboundAcceptable(ip)
            /\ active_out_connection_attempts' = active_out_connection_attempts
            /\ active_out_connections' = active_out_connections
            /\ ret'.res = "true" =>
                 /\ active_in_connections' = active_in_connections + 1
                 /\ peers' = [base EXCEPT ![ip].active_in_connections = @ + 1]
            /\ ret'.res = "false" =>
                 /\ active_in_connections' = active_in_connections
                 /\ Counters(peers') = Counters(peers)]_vars

\* C14 witness: an inbound connection from an address without a record has
\* been accepted, and the record created for it is neither advertised, banned
\* nor bootstrap.
C14_Witness ==
    /\ ret.op = "try_new_in_connection"
    /\ ret.res = "true"
    /\ peers[ret.ip].active_in_connections = 1
    /\ ~peers[ret.ip].advertised
    /\ ~peers[ret.ip].banned
    /\ ~peers[ret.ip].bootstrap

\* C15: once peer_banned(ip) has returned successfully, in every later state
\* try_new_in_connection(ip) does not accept and increments no inbound
\* counter, and try_out_connection_attempt_success(ip) does not return true.
C15_BanIsPermanent ==
    [][/\ (ret'.op = "try_new_in_connection" /\ ret'.ip \in ever_banned) =>
            /\ ret'.res # "true"
            /\ active_in_connections' = active_in_connections
       /\ (ret'.op = "try_out_connection_attempt_success"
             /\ ret'.ip \in ever_banned) =>
            ret'.res # "true"]_vars

\* C15 as amended: peer_banned(ip) returning successfully leaves the record
\* of ip banned or evicted; a banned record stays banned for as long as it
\* stays in the directory; and while the record of ip is banned,
\* try_new_in_connection(ip) does not accept and increments no inbound
\* counter and try_out_connection_attempt_success(ip) does not return true.
C15_BanLastsWhileRecorded ==
    [][/\ (ret'.op = "peer_banned" /\ ret'.res = "Ok") =>
            (ret'.ip \in DOMAIN peers' => peers'[ret'.ip].banned)
       /\ \A ip \in DOMAIN peers \cap DOMAIN peers' :
            peers[ip].banned => peers'[ip].banned
       /\ \A ip \in DOMAIN peers :
            (peers[ip].banned /\ ret'.ip = ip) =>
              /\ ret'.op = "try_new_in_connection" =>
                   /\ ret'.res # "true"
                   /\ active_in_connections' = active_in_connections
                   /\ Counters(peers') = Counters(peers)
              /\ ret'.op = "try_out_connection_attempt_success" =>
                   /\ ret'.res # "true"
                   /\ active_out_connections' = active_out_connections]_vars

\* C15 witness: an inbound connection has been refused to an address banned
\* by peer_banned, while inbound slots were free for it.
C15_Witness ==
    /\ ret.op = "try_new_in_connection"
    /\ ret.res = "false"
    /\ ret.ip \in ever_banned
    /\ ret.ip \in DOMAIN peers
    /\ peers[ret.ip].banned
    /\ active_in_connections < cfg.max_in_connections
    /\ peers[ret.ip].active_in_connections < cfg.max_in_connections_per_ip

(***************************************************************************)
(* cleanup_peers on its own: every directory of a small universe, as it    *)
(* can come out of a peers file, under two configurations, cleaned with    *)
(* and without candidate addresses, again and again.                       *)
(***************************************************************************)
\* the records an address can have: a record without connections that is
\* not a bootstrap one, banned or not, advertised or not, seen alive or
\* not, failed or not; a bootstrap record and a record with one connection,
\* each either banned and advertised or neither
CleanupRecords(ip) ==
    {PeerInfo(ip, b, FALSE, la, lf, adv, 0, 0, 0) :
        b \in BOOLEAN, adv \in BOOLEAN,
        la \in {NoTime, 0}, lf \in {NoTime, 0}}
    \cup {PeerInfo(ip, b, TRUE, NoTime, NoTime, b, 0, 0, 0) : b \in BOOLEAN}
    \cup {PeerInfo(ip, b, FALSE, NoTime, NoTime, b, 0, 0, 1) : b \in BOOLEAN}

\* the directories: any set of addresses, non-global ones and our own
\* included, each with one of its records
CleanupDirectories ==
    UNION {{ps \in [S -> UNION {CleanupRecords(ip) : ip \in S}] :
               \A ip \in S : ps[ip].ip = ip}
           : S \in SUBSET IPs}

\* no address of our own, one record retained per class, one candidate
\* taken per merge; our own address global, two idle records and no banned
\* record retained, two candidates taken per merge; no address of our own,
\* two idle records retained, one candidate taken per merge
CleanupConfigs ==
    {NetworkConfig(NoIp, 1, 1, 1, 1, 1, 1, 1, 0),
     NetworkConfig(LastIp, 1, 1, 1, 1, 2, 0, 2, 0),
     NetworkConfig(NoIp, 1, 1, 1, 1, 2, 1, 1, 0)}

CleanupInit ==
    /\ cfg \in CleanupConfigs
    /\ peers \in CleanupDirectories
    /\ active_out_connection_attempts = 0
    /\ active_out_connections = 0
    /\ active_in_connections = 0
    /\ saver_watch = [value |-> <<>>, changed |-> FALSE, rx_open |-> TRUE]
    /\ now = 0
    /\ ever_banned = {}
    /\ ret = NoCall
    /\ file = Written(<<>>)
    /\ PersistenceInit

\* one run of cleanup_peers(cfg, &mut peers, opt_new_peers); ret also keeps
\* whether the run before this one was a cleanup with no new IPs, and the
\* records this one removed
CleanupRun(new_peers) ==
    /\ peers' \in cleanup_peers(cfg, peers, new_peers)
    /\ ret' = [op |-> "cleanup_peers", ip |-> NoIp, new_peers |-> new_peers,
               res |-> "Ok", sent |-> FALSE,
               again |-> (ret.op = "cleanup_peers" /\ ret.new_peers = <<>>),
               evicted |-> {peers[ip] : ip \in DOMAIN peers \ DOMAIN peers'}]
    /\ UNCHANGED <<cfg, active_out_connection_attempts,
                   active_out_connections, active_in_connections,
                   saver_watch, now, ever_banned,
                   file, saver, stop_call, hist>>

\* cleanup_peers on a directory as loaded, with or without candidates
CleanupPeers ==
    /\ ret = NoCall
    /\ \E new_peers \in NewPeersLists : CleanupRun(new_peers)

\* cleanup_peers(cfg, &mut peers, None) on a directory already cleaned
CleanupAgain ==
    /\ ret.op = "cleanup_peers"
    /\ CleanupRun(None)

CleanupNext == CleanupPeers \/ CleanupAgain

SpecCleanup == CleanupInit /\ [][CleanupNext]_vars

\* C16: every bootstrap record present before cleanup_peers is still present
\* after it, whatever the directory and the configuration.
C16_BootstrapNeverRemoved ==
    [][ret'.op = "cleanup_peers" =>
         \A ip \in DOMAIN peers :
            peers[ip].bootstrap =>
               ip \in DOMAIN peers' /\ peers'[ip].bootstrap]_vars

\* C16 as amended: every bootstrap record whose address is globally routable
\* and is not routable_ip is still present after cleanup_peers, unchanged
\* but for the advertised flag a candidate list can set.
C16_RoutableBootstrapNeverRemoved ==
    [][ret'.op = "cleanup_peers" =>
         \A ip \in DOMAIN peers :
            (peers[ip].bootstrap /\ ~Unroutable(cfg, ip)) =>
               /\ ip \in DOMAIN peers'
               /\ \/ peers'[ip] = peers[ip]
                  \/ peers'[ip] = [peers[ip] EXCEPT !.advertised = TRUE]]_vars

\* C16 witness: cleanup has run with no banned record to retain and an
\* inactive, banned bootstrap record is in the directory.
C16_Witness ==
    /\ ret.op = "cleanup_peers"
    /\ cfg.max_banned_peers = 0
    /\ \E ip \in DOMAIN peers :
          /\ peers[ip].bootstrap
          /\ peers[ip].banned
          /\ ~is_active(peers[ip])

(***************************************************************************)
(* The two queries.  Both read the directory through HashMap::values(),    *)
(* whose order is arbitrary, and sort with an unstable sort: each is the   *)
(* set of the answers it can give.                                         *)
(***************************************************************************)
\* what a query returns: Ok with a list of addresses, or an error
Answer(res, ips) == [res |-> res, ips |-> ips]

\* the records of the addresses S, in each order HashMap::values() can yield
\* them
Values(S) == {[k \in 1..Cardinality(S) |-> peers[o[k]]] : o \in Orderings(S)}

\* .into_iter().take(n).map(|p| p.ip).collect()
TakeIps(s, n) == [k \in 1..Min(n, Len(s)) |-> s[k].ip]

\* slip: a record that failed exactly wakeup_interval ago is dialled again
is_candidate_at_wakeup(p) ==
    /\ p.advertised /\ ~p.banned /\ ~is_active(p)
    /\ IF p.last_failure # NoTime
       THEN \/ (p.last_alive # NoTime /\ p.last_alive > p.last_failure)
            \/ saturating_sub(now, p.last_failure) >= cfg.wakeup_interval
       ELSE TRUE

\* the filter closure of get_out_connection_candidate_ips, at time now
is_candidate(p) ==
    /\ p.advertised /\ ~p.banned /\ ~is_active(p)
    /\ IF p.last_failure # NoTime
       THEN \/ (p.last_alive # NoTime /\ p.last_alive > p.last_failure)
            \/ saturating_sub(saturating_sub(now, p.last_failure),
                              cfg.wakeup_interval) > 0
       ELSE TRUE

\* slip: the candidates are sorted on the key of the advertisable list
get_out_connection_candidate_ips_alive_first ==
    LET available_slots == get_available_out_connection_attempts
    IN IF available_slots = 0
       THEN {Answer("Ok", <<>>)}
       ELSE {Answer("TimeError", <<>>)} \cup
            {Answer("Ok", TakeIps(sorted_peers, available_slots)) :
               sorted_peers \in UNION {
                  sort_unstable_by_key(v, "AliveDescFailureAsc") :
                     v \in Values({ip \in DOMAIN peers : is_candidate(peers[ip])})}}

get_out_connection_candidate_ips ==
    LET available_slots == get_available_out_connection_attempts
    IN IF available_slots = 0
       THEN {Answer("Ok", <<>>)}
       ELSE {Answer("TimeError", <<>>)} \cup
            {Answer("Ok", TakeIps(sorted_peers, available_slots)) :
               sorted_peers \in UNION {
                  sort_unstable_by_key(v, "FailureAscAliveDesc") :
                     v \in Values({ip \in DOMAIN peers : is_candidate(peers[ip])})}}

\* slip: the banned records are advertised too
is_advertisable_banned_too(p) == p.advertised

\* the filter closure of get_advertisable_peer_ips
is_advertisable(p) == p.advertised /\ ~p.banned

\* slip: our own address is appended instead of being put first
get_advertisable_peer_ips_own_last ==
    {Answer("Ok",
            LET sorted_ips == TakeIps(sorted_peers, cfg.max_advertise_length)
            IN IF cfg.routable_ip # NoIp
               THEN truncate(sorted_ips \o <<cfg.routable_ip>>,
                             cfg.max_advertise_length)
               ELSE sorted_ips) :
       sorted_peers \in UNION {
          sort_unstable_by_key(v, "AliveDescFailureAsc") :
             v \in Values({ip \in DOMAIN peers : is_advertisable(peers[ip])})}}

get_advertisable_peer_ips ==
    {Answer("Ok",
            LET sorted_ips == TakeIps(sorted_peers, cfg.max_advertise_length)
            IN IF cfg.routable_ip # NoIp
               THEN truncate(<<cfg.routable_ip>> \o sorted_ips,
                             cfg.max_advertise_length)
               ELSE sorted_ips) :
       sorted_peers \in UNION {
          sort_unstable_by_key(v, "AliveDescFailureAsc") :
             v \in Values({ip \in DOMAIN peers : is_advertisable(peers[ip])})}}

(***************************************************************************)
(* The queries on every directory of a small universe the database can     *)
(* hold: records only for global addresses other than our own, every       *)
(* combination of flags and times, idle or with one outbound connection.   *)
(***************************************************************************)
\* the records of an address; a record with no flag and no connection is a
\* bootstrap record
QueryRecords(ip) ==
    {PeerInfo(ip, b, ~b /\ ~adv /\ out = 0, la, lf, adv, 0, out, 0) :
        b \in BOOLEAN, adv \in BOOLEAN, out \in {0, 1},
        la \in OptTimes, lf \in OptTimes}

\* our own address non-global, two attempt slots, two addresses advertised,
\* an immediate retry; no address of our own, one attempt slot, one address
\* advertised, a retry after one time unit; our own address global and
\* nothing advertised
QueryConfigs ==
    {NetworkConfig(LocalIp, 2, 2, 1, 1, NumGlobalIps, NumGlobalIps, 2, 0),
     NetworkConfig(NoIp, 3, 1, 1, 1, NumGlobalIps, NumGlobalIps, 1, 1),
     NetworkConfig(LastIp, 2, 2, 1, 1, NumGlobalIps, NumGlobalIps, 0, 1)}

QueryDirectories(c) ==
    UNION {{ps \in [S -> UNION {QueryRecords(ip) : ip \in S}] :
               \A ip \in S : ps[ip].ip = ip}
           : S \in SUBSET {ip \in GlobalIps : ~Unroutable(c, ip)}}

QueryInit ==
    /\ cfg \in QueryConfigs
    /\ peers \in QueryDirectories(cfg)
    /\ active_out_connection_attempts = 0
    /\ active_out_connections
         = Cardinality({ip \in DOMAIN peers : peers[ip].active_out_connections = 1})
    /\ active_out_connections <= cfg.target_out_connections
    /\ active_in_connections = 0
    /\ saver_watch = [value |-> peers, changed |-> FALSE, rx_open |-> TRUE]
    /\ now \in Times
    /\ ever_banned = {}
    /\ ret = NoCall
    /\ file = Written(<<>>)
    /\ PersistenceInit

\* a query returns: nothing changes but the record of the call
Answered(op, a) ==
    /\ ret' = [op |-> op, ip |-> NoIp, new_peers |-> <<>>, res |-> a.res,
               sent |-> FALSE, ips |-> a.ips]
    /\ UNCHANGED <<cfg, peers, active_out_connection_attempts,
                   active_out_connections, active_in_connections,
                   saver_watch, now, ever_banned,
                   file, saver, stop_call, hist>>

GetOutConnectionCandidateIps ==
    /\ ret = NoCall
    /\ \E a \in get_out_connection_candidate_ips :
          Answered("get_out_connection_candidate_ips", a)

GetAdvertisablePeerIps ==
    /\ ret = NoCall
    /\ \E a \in get_advertisable_peer_ips :
          Answered("get_advertisable_peer_ips", a)

QueryNext ==
    \/ GetOutConnectionCandidateIps
    \/ GetAdvertisablePeerIps

SpecQuery == QueryInit /\ [][QueryNext]_vars

\* dial-eligible at the time of the call: never failed, or seen alive after
\* the last failure, or failed more than wakeup_interval ago
DialEligible(p) ==
    \/ p.last_failure = NoTime
    \/ (p.last_alive # NoTime /\ p.last_alive > p.last_failure)
    \/ now - p.last_failure > cfg.wakeup_interval

\* the addresses of the records a dial can go to
EligibleIps ==
    {ip \in DOMAIN peers :
        /\ peers[ip].advertised /\ ~peers[ip].banned /\ ~is_active(peers[ip])
        /\ DialEligible(peers[ip])}

CandidatesReturned ==
    ret.op = "get_out_connection_candidate_ips" /\ ret.res = "Ok"

\* C17: every address returned by get_out_connection_candidate_ips() is that
\* of a record that is advertised, not banned, inactive and dial-eligible at
\* the time of the call; a record that failed exactly wakeup_interval ago,
\* and was not seen alive since, is not eligible.
C17_CandidatesAreEligible ==
    CandidatesReturned =>
       \A k \in 1..Len(ret.ips) :
          /\ ret.ips[k] \in DOMAIN peers
          /\ LET p == peers[ret.ips[k]]
             IN /\ p.advertised /\ ~p.banned /\ ~is_active(p)
                /\ DialEligible(p)
                /\ (/\ p.last_failure # NoTime
                    /\ p.last_alive <= p.last_failure)
                   => now - p.last_failure # cfg.wakeup_interval

\* C17 witness: with a slot available, a record that failed exactly
\* wakeup_interval ago has been left out of the list and a record that
\* failed earlier is in it.
C17_Witness ==
    /\ CandidatesReturned
    /\ get_available_out_connection_attempts > Len(ret.ips)
    /\ \E ip \in DOMAIN peers :
          /\ peers[ip].advertised /\ ~peers[ip].banned /\ ~is_active(peers[ip])
          /\ peers[ip].last_failure # NoTime
          /\ now - peers[ip].last_failure = cfg.wakeup_interval
          /\ \A k \in 1..Len(ret.ips) : ret.ips[k] # ip
    /\ \E k \in 1..Len(ret.ips) :
          /\ peers[ret.ips[k]].last_failure # NoTime
          /\ peers[ret.ips[k]].last_alive <= peers[ret.ips[k]].last_failure

\* a ranks strictly before b in the order of the candidate list: earlier or
\* no last failure first, then the later last_alive, never alive last
RanksBefore(a, b) ==
    \/ a.last_failure < b.last_failure
    \/ (a.last_failure = b.last_failure /\ a.last_alive > b.last_alive)

\* C18: get_out_connection_candidate_ips() returns at most
\* available_out_attempts addresses, and they are the first of the eligible
\* records in the order (last_failure ascending, never failed first; then
\* last_alive descending, never alive last): the list is in that order, it
\* is as long as the slots and the eligible records allow, and no eligible
\* record left out ranks strictly before a returned one.
C18_CandidatesAreTheFirst ==
    CandidatesReturned =>
       LET n == Len(ret.ips)
           returned == {ret.ips[k] : k \in 1..n}
       IN /\ n = Min(get_available_out_connection_attempts,
                     Cardinality(EligibleIps))
          /\ returned \subseteq EligibleIps
          /\ Cardinality(returned) = n
          /\ \A i, j \in 1..n :
                i < j => ~RanksBefore(peers[ret.ips[j]], peers[ret.ips[i]])
          /\ \A q \in EligibleIps \ returned : \A r \in returned :
                ~RanksBefore(peers[q], peers[r])

\* C18 witness: one slot, two eligible records with the same last_failure;
\* the one seen alive later has been returned.
C18_Witness ==
    /\ CandidatesReturned
    /\ Len(ret.ips) = 1
    /\ \E q \in EligibleIps :
          /\ q # ret.ips[1]
          /\ peers[q].last_failure = peers[ret.ips[1]].last_failure
          /\ peers[q].last_alive < peers[ret.ips[1]].last_alive

AdvertisableReturned == ret.op = "get_advertisable_peer_ips"

\* the returned list without its leading routable_ip, if it has one
AdvertisedTail ==
    IF cfg.routable_ip # NoIp /\ ret.ips # <<>> /\ ret.ips[1] = cfg.routable_ip
    THEN SubSeq(ret.ips, 2, Len(ret.ips))
    ELSE ret.ips

C20_SelfLeads ==
    (AdvertisableReturned /\ cfg.routable_ip # NoIp) =>
       /\ ret.ips # <<>>
       /\ ret.ips[1] = cfg.routable_ip
       /\ \A k \in 2..Len(ret.ips) : ret.ips[k] # cfg.routable_ip

\* C20 as amended: whenever routable_ip is configured and
\* max_advertise_length is at least 1, the list has routable_ip as its first
\* element and nowhere else; with max_advertise_length = 0 the list is empty.
C20_SelfLeadsWhenAdvertising ==
    (AdvertisableReturned /\ cfg.routable_ip # NoIp) =>
       IF cfg.max_advertise_length >= 1
       THEN /\ ret.ips # <<>>
            /\ ret.ips[1] = cfg.routable_ip
            /\ \A k \in 2..Len(ret.ips) : ret.ips[k] # cfg.routable_ip
       ELSE ret.ips = <<>>

\* C20 witness: two advertisable records and room for two addresses: the
\* list is routable_ip followed by one of them.
C20_Witness ==
    /\ AdvertisableReturned
    /\ cfg.routable_ip # NoIp
    /\ Cardinality({ip \in DOMAIN peers : is_advertisable(peers[ip])}) = 2
    /\ cfg.max_advertise_length = 2
    /\ Len(ret.ips) = 2
    /\ ret.ips[1] = cfg.routable_ip
    /\ ret.ips[2] \in DOMAIN peers

(***************************************************************************)
(* get_available_out_connection_attempts on its own: every combination of  *)
(* the two caps and the two counters up to MaxCount, the counters carried  *)
(* by one record.                                                          *)
(***************************************************************************)
AvailableInit ==
    /\ \E target, max_att \in 0..MaxCount :
          cfg = NetworkConfig(NoIp, target, max_att, 1, 1, 1, 1, 1, 0)
    /\ \E att, out \in 0..MaxCount :
          /\ peers = FromVec(<<PeerInfo(FirstIp, FALSE, TRUE, NoTime, NoTime,
                                        FALSE, att, out, 0)>>)
          /\ active_out_connection_attempts = att
          /\ active_out_connections = out
    /\ active_in_connections = 0
    /\ saver_watch = [value |-> peers, changed |-> FALSE, rx_open |-> TRUE]
    /\ now = 0
    /\ ever_banned = {}
    /\ ret = NoCall
    /\ file = Written(<<>>)
    /\ PersistenceInit

GetAvailableOutConnectionAttempts ==
    /\ ret = NoCall
    /\ ret' = [op |-> "get_available_out_connection_attempts", ip |-> NoIp,
               new_peers |-> <<>>, res |-> "Ok", sent |-> FALSE,
               n |-> get_available_out_connection_attempts]
    /\ UNCHANGED <<cfg, peers, active_out_connection_attempts,
                   active_out_connections, active_in_connections,
                   saver_watch, now, ever_banned,
                   file, saver, stop_call, hist>>

AvailableNext == GetAvailableOutConnectionAttempts

SpecAvailable == AvailableInit /\ [][AvailableNext]_vars

Max(a, b) == IF a >= b THEN a ELSE b

\* C21: for all non-negative caps and counters,
\* get_available_out_connection_attempts() is
\* min(max(0, target - attempts - connections), max(0, cap - attempts)),
\* and is never negative.
C21_AvailableFormula ==
    ret.op = "get_available_out_connection_attempts" =>
       /\ ret.n = Min(Max(0, cfg.target_out_connections
                               - active_out_connection_attempts
                               - active_out_connections),
                      Max(0, cfg.max_out_connnection_attempts
                               - active_out_connection_attempts))
       /\ ret.n >= 0

\* C21 witness: the attempts alone are within the target but attempts and
\* connections together exceed it, and the attempt cap is exceeded too: the
\* answer is 0.
C21_Witness ==
    /\ ret.op = "get_available_out_connection_attempts"
    /\ active_out_connection_attempts < cfg.target_out_connections
    /\ active_out_connection_attempts + active_out_connections
         > cfg.target_out_connections
    /\ active_out_connection_attempts > cfg.max_out_connnection_attempts
    /\ ret.n = 0

\* C22: running cleanup with no new IPs a second time, right after a run
\* with no new IPs, leaves the set of member addresses as the first run
\* left it.
C22_CleanupIdempotent ==
    [][(/\ ret.op = "cleanup_peers" /\ ret.new_peers = <<>>
        /\ ret'.op = "cleanup_peers" /\ ret'.new_peers = <<>>)
       => DOMAIN peers' = DOMAIN peers]_vars

\* C22 witness: cleanup has run twice in a row with no new IPs, on a
\* directory from which the first run had records to evict: the banned and
\* the idle class are both at their caps.
C22_Witness ==
    /\ ret.op = "cleanup_peers" /\ ret.new_peers = <<>>
    /\ ret.again
    /\ cfg.max_banned_peers > 0
    /\ Cardinality({ip \in DOMAIN peers : InBanned(peers[ip])})
         = cfg.max_banned_peers
    /\ Cardinality({ip \in DOMAIN peers : InIdle(peers[ip])})
         = cfg.max_idle_peers

\* the record is without connections and is not a bootstrap one
Inactive(p) == ~p.bootstrap /\ ~is_active(p)

\* the banned class and the idle class of cleanup, among the records whose
\* address is globally routable and is not our own
BannedClass(p) == ~Unroutable(cfg, p.ip) /\ Inactive(p) /\ p.banned
IdleClass(p) == ~Unroutable(cfg, p.ip) /\ Inactive(p) /\ ~p.banned /\ p.advertised

\* a ranks strictly before b: most recent failure first, then oldest alive
BannedRanksBefore(a, b) ==
    \/ a.last_failure > b.last_failure
    \/ (a.last_failure = b.last_failure /\ a.last_alive < b.last_alive)

\* a ranks strictly before b: most recently alive first, then oldest failure
IdleRanksBefore(a, b) ==
    \/ a.last_alive > b.last_alive
    \/ (a.last_alive = b.last_alive /\ a.last_failure < b.last_failure)

\* the addresses of the directory ps whose record is in a class
BannedOf(ps) == {ip \in DOMAIN ps : BannedClass(ps[ip])}
IdleOf(ps) == {ip \in DOMAIN ps : IdleClass(ps[ip])}

\* C23: after cleanup the retained banned records are the first
\* max_banned_peers of the banned class by last_failure descending then
\* last_alive ascending, the retained idle records the first max_idle_peers
\* of the idle class by last_alive descending then last_failure ascending:
\* the retained ones number min(cap, class size) (for the idle class, when
\* no new IPs are merged), no evicted record of a class ranks strictly
\* before a retained record of that class, and every record with a
\* connection or attempt at a routable address other than ours is retained
\* whatever the caps.
C23_RetainedAreTheFirst ==
    [][ret'.op = "cleanup_peers" /\ ret' # ret =>
        /\ BannedOf(peers') \subseteq BannedOf(peers)
        /\ Cardinality(BannedOf(peers'))
             = Min(cfg.max_banned_peers, Cardinality(BannedOf(peers)))
        /\ \A e \in BannedOf(peers) \ BannedOf(peers') :
              /\ e \notin DOMAIN peers'
              /\ \A r \in BannedOf(peers') :
                    ~BannedRanksBefore(peers[e], peers'[r])
        /\ ret'.new_peers = <<>> =>
              /\ IdleOf(peers') \subseteq IdleOf(peers)
              /\ Cardinality(IdleOf(peers'))
                   = Min(cfg.max_idle_peers, Cardinality(IdleOf(peers)))
        /\ Cardinality(IdleOf(peers')) <= cfg.max_idle_peers
        /\ \A e \in IdleOf(peers) \ DOMAIN peers' :
              \A r \in IdleOf(peers') : ~IdleRanksBefore(peers[e], peers'[r])
        /\ \A ip \in DOMAIN peers :
              is_active(peers[ip]) /\ ~Unroutable(cfg, ip) =>
                 /\ ip \in DOMAIN peers'
                 /\ is_active(peers'[ip])]_vars

\* C23 witness: cleanup has just evicted a banned record whose last failure
\* is older than that of the banned record it retained.
C23_Witness ==
    /\ ret.op = "cleanup_peers"
    /\ \E e \in ret.evicted : \E r \in BannedOf(peers) :
          /\ BannedClass(e)
          /\ peers[r].last_failure > e.last_failure

\* the addresses a cleanup step has added to the directory
Created == DOMAIN peers' \ DOMAIN peers

\* C24: when cleanup merges candidates, it never retains a freshly added
\* candidate while it evicts a record that was in the idle class before
\* the call and has the sort key of a fresh record (no last_alive, no
\* last_failure).
C24_ExistingBeforeFresh ==
    [][ret'.op = "cleanup_peers" /\ ret'.new_peers # <<>> =>
        ~(/\ Created # {}
          /\ \E e \in IdleOf(peers) \ DOMAIN peers' :
                /\ peers[e].last_alive = NoTime
                /\ peers[e].last_failure = NoTime)]_vars

\* C24 witness: a merge of a single candidate has truncated the idle class
\* to max_idle_peers: the candidate, which had no record, is not in the
\* directory, and the idle record retained has the sort key of a fresh one
\* and has never been evicted.
C24_Witness ==
    /\ ret.op = "cleanup_peers"
    /\ Len(ret.new_peers) = 1
    /\ ~Unroutable(cfg, ret.new_peers[1])
    /\ ret.new_peers[1] \notin DOMAIN peers
    /\ \A e \in ret.evicted : e.ip # ret.new_peers[1]
    /\ cfg.max_idle_peers = 1
    /\ \E r \in IdleOf(peers) :
          /\ peers[r].last_alive = NoTime
          /\ peers[r].last_failure = NoTime

\* C25: after merge_candidate_peers(new_ips) with a non-empty list, every
\* address of new_ips that had a record before the call and still has one
\* has advertised = true, wherever it stands in the list and whatever
\* max_advertise_length is.
C25_KnownIpsMarked ==
    [][ret.op = "none" /\ ret'.op = "merge_candidate_peers" =>
        \A k \in 1..Len(ret'.new_peers) :
            LET ip == ret'.new_peers[k] IN
            ip \in DOMAIN peers /\ ip \in DOMAIN peers' =>
               peers'[ip].advertised]_vars

\* the candidate is one merge can create a record for
C26_Eligible(ip) ==
    /\ is_global(ip)
    /\ ip # cfg.routable_ip
    /\ ip \notin DOMAIN peers

\* C26: one merge creates at most max_advertise_length records; each is for
\* an address of new_ips that is globally routable, differs from
\* routable_ip and had no record; the addresses are taken in list order
\* (every such address standing earlier in the list got its record too);
\* the record is advertised, not banned, not bootstrap, without timestamps
\* and with all counters zero.
C26_CreatedRecords ==
    [][ret'.op = "cleanup_peers" /\ ret'.new_peers # <<>> =>
        /\ Cardinality(Created) <= cfg.max_advertise_length
        /\ \A ip \in Created :
              /\ C26_Eligible(ip)
              /\ \E k \in 1..Len(ret'.new_peers) :
                    /\ ret'.new_peers[k] = ip
                    /\ \A j \in 1..(k - 1) :
                          C26_Eligible(ret'.new_peers[j]) =>
                             ret'.new_peers[j] \in Created
              /\ peers'[ip] = PeerInfo(ip, FALSE, FALSE, NoTime, NoTime, TRUE,
                                       0, 0, 0)]_vars

\* C26 witness: a merge of two distinct candidates without records, both
\* routable, has created the record of the first one only, although the
\* idle class has room for one more.
C26_Witness ==
    /\ ret.op = "cleanup_peers"
    /\ Len(ret.new_peers) = 2
    /\ ret.new_peers[1] # ret.new_peers[2]
    /\ \A k \in 1..2 :
          /\ ~Unroutable(cfg, ret.new_peers[k])
          /\ \A e \in ret.evicted : e.ip # ret.new_peers[k]
    /\ ~ret.again
    /\ ret.new_peers[1] \in DOMAIN peers
    /\ peers[ret.new_peers[1]]
         = PeerInfo(ret.new_peers[1], FALSE, FALSE, NoTime, NoTime, TRUE, 0, 0, 0)
    /\ ret.new_peers[2] \notin DOMAIN peers
    /\ cfg.max_advertise_length = 1
    /\ Cardinality(IdleOf(peers)) < cfg.max_idle_peers

(***************************************************************************)
(* The round trip through the peers file: new() loads a file and cleans    *)
(* the directory, dump_peers writes it, new() loads what was written.      *)
(***************************************************************************)
\* the objects a peers file can hold: every address and combination of the
\* flags, seen alive or not, without counter keys or with one inbound
\* connection counted
RoundTripEntries ==
    LET plain == {ToJson(PeerInfo(ip, b, bs, la, NoTime, adv, 0, 0, 0)) :
                    ip \in IPs, b \in BOOLEAN, bs \in BOOLEAN, adv \in BOOLEAN,
                    la \in {NoTime, 0}}
    IN plain \cup {WithCounters(e, 0, 0, 1) : e \in plain}

\* the peers files: arrays of at most MaxFileLen objects, an address may
\* come twice
PeersFiles == UNION {[1..n -> RoundTripEntries] : n \in 0..MaxFileLen}

\* no address of our own, one record retained per class; our own address
\* global and no banned record retained
RoundTripConfigs ==
    {NetworkConfig(NoIp, 1, 1, 1, 1, 1, 1, 1, 0),
     NetworkConfig(LastIp, 1, 1, 1, 1, 1, 0, 1, 0)}

RoundTripInit ==
    /\ cfg \in RoundTripConfigs
    /\ \E entries \in PeersFiles : file = Written(entries)
    /\ peers = <<>>
    /\ active_out_connection_attempts = 0
    /\ active_out_connections = 0
    /\ active_in_connections = 0
    /\ saver_watch = [value |-> <<>>, changed |-> FALSE, rx_open |-> TRUE]
    /\ now = 0
    /\ ever_banned = {}
    /\ ret = NoCall
    /\ PersistenceInit

\* PeerInfoDatabase::new up to the channel: read and parse the peers file,
\* collect the directory, clean it; an unreadable file is an error.  ret
\* also keeps which construction this is, the directory the first one
\* built, and whether the file read is one dump_peers has written.
New ==
    /\ ret.op \in {"none", "dump_peers"}
    /\ IF file.valid
       THEN /\ peers' \in cleanup_peers(cfg, Load(file.entries), None)
            /\ saver_watch' = [value |-> peers', changed |-> FALSE, rx_open |-> TRUE]
            /\ ret' = [op |-> "new", ip |-> NoIp, new_peers |-> <<>>,
                       res |-> "Ok", sent |-> FALSE,
                       round |-> IF ret.op = "none" THEN 1 ELSE 2,
                       first |-> IF ret.op = "none" THEN peers' ELSE ret.first,
                       dumped |-> (ret.op = "dump_peers" /\ ret.res = "Ok")]
       ELSE /\ ret' = [op |-> "new", ip |-> NoIp, new_peers |-> <<>>,
                       res |-> "IoError", sent |-> FALSE,
                       round |-> 2, first |-> ret.first, dumped |-> FALSE]
            /\ UNCHANGED <<peers, saver_watch>>
    /\ active_out_connection_attempts' = 0
    /\ active_out_connections' = 0
    /\ active_in_connections' = 0
    /\ UNCHANGED <<cfg, now, ever_banned, file, saver, stop_call, hist>>

\* dump_peers(&peers, &peers_file) on the directory the first construction
\* built: the write succeeds, or fails and leaves the file as it was or
\* unreadable
DumpPeers ==
    /\ ret.op = "new" /\ ret.res = "Ok" /\ ret.round = 1
    /\ \/ /\ \E entries \in dump_peers(peers) : file' = Written(entries)
          /\ ret' = [ret EXCEPT !.op = "dump_peers", !.res = "Ok"]
       \/ /\ file' \in {file, Torn}
          /\ ret' = [ret EXCEPT !.op = "dump_peers", !.res = "IoError"]
    /\ UNCHANGED <<cfg, peers, active_out_connection_attempts,
                   active_out_connections, active_in_connections,
                   saver_watch, now, ever_banned, saver, stop_call, hist>>

RoundTripNext == New \/ DumpPeers

SpecRoundTrip == RoundTripInit /\ [][RoundTripNext]_vars

\* the persisted subset of a directory: its banned, advertised or bootstrap
\* records, restricted to the six persisted fields
PersistedSubset(ps) ==
    {[ip |-> ps[ip].ip, banned |-> ps[ip].banned, bootstrap |-> ps[ip].bootstrap,
      last_alive |-> ps[ip].last_alive, last_failure |-> ps[ip].last_failure,
      advertised |-> ps[ip].advertised] :
        ip \in {x \in DOMAIN ps :
                  ps[x].banned \/ ps[x].advertised \/ ps[x].bootstrap}}

\* the second construction has loaded the file dump_peers wrote from the
\* directory of the first one
RoundTripDone ==
    ret.op = "new" /\ ret.res = "Ok" /\ ret.round = 2 /\ ret.dumped

\* C27: for every peers file, loading it, cleaning, dumping, loading the
\* dump and cleaning again gives a directory whose persisted subset is the
\* persisted subset of the directory after the first cleanup.
C27_RoundTrip ==
    RoundTripDone => PersistedSubset(peers) = PersistedSubset(ret.first)

\* the round trip does hold when the first directory has no record with a
\* connection or attempt, that is when the file loaded first has no
\* non-zero counter on a record that survives the cleanup
C27_RoundTripWithoutCounters ==
    (RoundTripDone /\ \A ip \in DOMAIN ret.first : ~is_active(ret.first[ip]))
       => PersistedSubset(peers) = PersistedSubset(ret.first)

\* a round trip of a file without counters whose first cleanup had to
\* truncate: both classes at their caps, timestamps kept
C27_RoundTripWithoutCountersSeen ==
    /\ RoundTripDone
    /\ \A ip \in DOMAIN ret.first : ~is_active(ret.first[ip])
    /\ Cardinality(DOMAIN peers) = 2
    /\ \E ip \in DOMAIN peers : peers[ip].last_alive = 0

(***************************************************************************)
(* The saver task and stop().  The core makes at most MaxCalls public      *)
(* calls, then or earlier stop(); the saver task runs beside it: it waits  *)
(* in select! for a change of the watch channel or for its timer, and      *)
(* writes the peers file.                                                  *)
(***************************************************************************)
\* the sender of the watch channel lives until stop() drops it
tx_open == stop_call.pc = "none"

\* one bootstrap peer in the file; room for one idle and one banned record
SaverConfig == NetworkConfig(NoIp, 1, 1, 2, 1, 1, 1, 1, 0)
SaverFile == <<FileRecord(FirstIp, FALSE, TRUE, FALSE)>>

SaverInit ==
    /\ cfg = SaverConfig
    /\ file = Written(SaverFile)
    /\ peers \in cleanup_peers(cfg, Load(file.entries), None)
    /\ active_out_connection_attempts = 0
    /\ active_out_connections = 0
    /\ active_in_connections = 0
    /\ saver_watch = [value |-> peers, changed |-> FALSE, rx_open |-> TRUE]
    /\ now = 0
    /\ ever_banned = {}
    /\ ret = NoCall
    /\ PersistenceInit

\* slip: the snapshot sent is the directory as the call found it
Called_sends_stale(o) ==
    /\ tx_open
    /\ hist.calls < MaxCalls
    /\ peers' = o.db.peers
    /\ active_out_connection_attempts' = o.db.active_out_connection_attempts
    /\ active_out_connections' = o.db.active_out_connections
    /\ active_in_connections' = o.db.active_in_connections
    /\ saver_watch' = IF o.sent
                      THEN [saver_watch EXCEPT !.value = peers,
                                               !.changed = TRUE]
                      ELSE saver_watch
    /\ hist' = [hist EXCEPT !.calls = @ + 1,
                            !.sends = IF o.sent THEN @ + 1 ELSE @,
                            !.on_torn = @ \/ (o.sent /\ ~file.valid)]
    /\ UNCHANGED <<cfg, now, ever_banned, ret, file, saver, stop_call>>

\* a public call returns with the outcome o: the database it leaves, and
\* the snapshot it has put in the watch channel if it sent one; the history
\* notes a snapshot sent while a failed write had left the file unreadable
Called(o) ==
    /\ tx_open
    /\ hist.calls < MaxCalls
    /\ peers' = o.db.peers
    /\ active_out_connection_attempts' = o.db.active_out_connection_attempts
    /\ active_out_connections' = o.db.active_out_connections
    /\ active_in_connections' = o.db.active_in_connections
    /\ saver_watch' = IF o.sent
                      THEN [saver_watch EXCEPT !.value = o.db.peers,
                                               !.changed = TRUE]
                      ELSE saver_watch
    /\ hist' = [hist EXCEPT !.calls = @ + 1,
                            !.sends = IF o.sent THEN @ + 1 ELSE @,
                            !.on_torn = @ \/ (o.sent /\ ~file.valid)]
    /\ UNCHANGED <<cfg, now, ever_banned, ret, file, saver, stop_call>>

CallMergeCandidatePeers ==
    \E new_peers \in NewPeersLists : \E o \in merge_candidate_peers(new_peers) :
        Called(o)

CallPeerBanned ==
    \E ip \in IPs : \E o \in peer_banned(ip) : Called(o)

CallTryNewInConnection ==
    \E ip \in IPs : \E o \in try_new_in_connection(ip) : Called(o)

\* saver_watch_rx.changed() returns Ok: a value not yet seen is marked
\* seen; the timer is armed unless a dump is already due
SaverChanged ==
    /\ saver.pc = "select"
    /\ saver_watch.changed
    /\ saver_watch' = [saver_watch EXCEPT !.changed = FALSE]
    /\ saver' = IF saver.need_dump
                THEN saver
                ELSE [saver EXCEPT !.need_dump = TRUE, !.delay = "armed"]
    /\ UNCHANGED <<cfg, peers, active_out_connection_attempts,
                   active_out_connections, active_in_connections,
                   now, ever_banned, ret, file, stop_call, hist>>

\* slip: the closed channel is only noticed when no dump is due
SaverClosedWhenNothingDue ==
    /\ saver.pc = "select"
    /\ ~saver_watch.changed
    /\ ~tx_open
    /\ ~saver.need_dump
    /\ saver' = [saver EXCEPT !.pc = "done"]
    /\ saver_watch' = [saver_watch EXCEPT !.rx_open = FALSE]
    /\ UNCHANGED <<cfg, peers, active_out_connection_attempts,
                   active_out_connections, active_in_connections,
                   now, ever_banned, ret, file, stop_call, hist>>

\* saver_watch_rx.changed() returns Err: every value is seen and the sender
\* is dropped; the loop breaks, the task ends and drops the receiver
SaverClosed ==
    /\ saver.pc = "select"
    /\ ~saver_watch.changed
    /\ ~tx_open
    /\ saver' = [saver EXCEPT !.pc = "done"]
    /\ saver_watch' = [saver_watch EXCEPT !.rx_open = FALSE]
    /\ UNCHANGED <<cfg, peers, active_out_connection_attempts,
                   active_out_connections, active_in_connections,
                   now, ever_banned, ret, file, stop_call, hist>>

\* peers_file_dump_interval passes: the armed sleep elapses
Elapse ==
    /\ saver.delay = "armed"
    /\ saver' = [saver EXCEPT !.delay = "elapsed"]
    /\ UNCHANGED <<cfg, peers, active_out_connection_attempts,
                   active_out_connections, active_in_connections,
                   saver_watch, now, ever_banned, ret, file, stop_call, hist>>

\* the branch `&mut delay, if need_dump`: the value of the channel is cloned
\* (borrow() does not mark it seen) and dump_peers starts on it
SaverDelay ==
    /\ saver.pc = "select"
    /\ saver.need_dump
    /\ saver.delay = "elapsed"
    /\ saver' = [saver EXCEPT !.pc = "dump", !.to_dump = saver_watch.value,
                              !.version = hist.sends]
    /\ UNCHANGED <<cfg, peers, active_out_connection_attempts,
                   active_out_connections, active_in_connections,
                   saver_watch, now, ever_banned, ret, file, stop_call, hist>>

\* stop() is waiting for the saver task while the task finishes a write
Waited == [stop_call EXCEPT !.waited = @ \/ stop_call.pc = "join"]

\* dump_peers(&to_dump, ..) of the saver task returns Ok
SaverDumpOk ==
    /\ saver.pc = "dump"
    /\ \E entries \in dump_peers(saver.to_dump) : file' = Written(entries)
    /\ saver' = [saver EXCEPT !.pc = "select", !.need_dump = FALSE]
    /\ hist' = [hist EXCEPT !.written = saver.version]
    /\ stop_call' = Waited
    /\ UNCHANGED <<cfg, peers, active_out_connection_attempts,
                   active_out_connections, active_in_connections,
                   saver_watch, now, ever_banned, ret>>

\* slip: after a failed write the saver task no longer holds a dump due
SaverDumpErrGivesUp ==
    /\ saver.pc = "dump"
    /\ file' \in {file, Torn}
    /\ saver' = [saver EXCEPT !.pc = "select", !.need_dump = FALSE]
    /\ stop_call' = Waited
    /\ UNCHANGED <<cfg, peers, active_out_connection_attempts,
                   active_out_connections, active_in_connections,
                   saver_watch, now, ever_banned, ret, hist>>

\* slip: a failed write ends the saver task, which drops the receiver
SaverDumpErrBreaks ==
    /\ saver.pc = "dump"
    /\ file' \in {file, Torn}
    /\ saver' = [saver EXCEPT !.pc = "done"]
    /\ saver_watch' = [saver_watch EXCEPT !.rx_open = FALSE]
    /\ stop_call' = Waited
    /\ UNCHANGED <<cfg, peers, active_out_connection_attempts,
                   active_out_connections, active_in_connections,
                   now, ever_banned, ret, hist>>

\* dump_peers(&to_dump, ..) of the saver task returns Err: the file is as it
\* was or unreadable; a warning, and the timer is armed again
SaverDumpErr ==
    /\ saver.pc = "dump"
    /\ file' \in {file, Torn}
    /\ saver' = [saver EXCEPT !.pc = "select", !.delay = "armed"]
    /\ stop_call' = Waited
    /\ UNCHANGED <<cfg, peers, active_out_connection_attempts,
                   active_out_connections, active_in_connections,
                   saver_watch, now, ever_banned, ret, hist>>

\* stop(): drop(self.saver_watch_tx), then wait for the saver task
Stop ==
    /\ stop_call.pc = "none"
    /\ stop_call' = [stop_call EXCEPT !.pc = "join"]
    /\ UNCHANGED <<cfg, peers, active_out_connection_attempts,
                   active_out_connections, active_in_connections,
                   saver_watch, now, ever_banned, ret, file, saver, hist>>

\* slip: stop() goes on without waiting for the saver task
joined_without_waiting == TRUE

\* self.saver_join_handle.await is ready: the saver task has ended
joined == saver.pc = "done"

\* stop(): the join handle is ready, dump_peers(&self.peers, ..) starts
StopJoined ==
    /\ stop_call.pc = "join"
    /\ joined
    /\ stop_call' = [stop_call EXCEPT !.pc = "dump", !.dumps = @ + 1]
    /\ UNCHANGED <<cfg, peers, active_out_connection_attempts,
                   active_out_connections, active_in_connections,
                   saver_watch, now, ever_banned, ret, file, saver, hist>>

\* stop(): the final dump_peers returns Ok, stop() returns Ok(())
StopDumpOk ==
    /\ stop_call.pc = "dump"
    /\ \E entries \in dump_peers(peers) : file' = Written(entries)
    /\ stop_call' = [stop_call EXCEPT !.pc = "returned", !.res = "Ok",
                                      !.dumped = TRUE]
    /\ UNCHANGED <<cfg, peers, active_out_connection_attempts,
                   active_out_connections, active_in_connections,
                   saver_watch, now, ever_banned, ret, saver, hist>>

\* slip: stop() hands the error of the final dump to its caller
StopDumpErrPropagated ==
    /\ stop_call.pc = "dump"
    /\ file' \in {file, Torn}
    /\ stop_call' = [stop_call EXCEPT !.pc = "returned", !.res = "IoError"]
    /\ UNCHANGED <<cfg, peers, active_out_connection_attempts,
                   active_out_connections, active_in_connections,
                   saver_watch, now, ever_banned, ret, saver, hist>>

\* stop(): the final dump_peers returns Err: a warning, stop() returns Ok(())
StopDumpErr ==
    /\ stop_call.pc = "dump"
    /\ file' \in {file, Torn}
    /\ stop_call' = [stop_call EXCEPT !.pc = "returned", !.res = "Ok"]
    /\ UNCHANGED <<cfg, peers, active_out_connection_attempts,
                   active_out_connections, active_in_connections,
                   saver_watch, now, ever_banned, ret, saver, hist>>

SaverNext ==
    \/ CallMergeCandidatePeers
    \/ CallPeerBanned
    \/ CallTryNewInConnection
    \/ SaverChanged
    \/ SaverClosed
    \/ Elapse
    \/ SaverDelay
    \/ SaverDumpOk
    \/ SaverDumpErr
    \/ Stop
    \/ StopJoined
    \/ StopDumpOk
    \/ StopDumpErr

SpecSaver == SaverInit /\ [][SaverNext]_vars

\* the tokio runtime polls the saver task and stop() when they can go on,
\* the armed sleep elapses, select! picks every ready branch in turn, and
\* (the condition of the claims) a write that is tried again and again
\* succeeds in the end
SpecSaverFair ==
    /\ SpecSaver
    /\ WF_vars(SaverChanged)
    /\ WF_vars(Elapse)
    /\ WF_vars(SaverDelay)
    /\ SF_vars(SaverDumpOk)
    /\ SF_vars(SaverClosed)
    /\ WF_vars(StopJoined)
    /\ WF_vars(StopDumpOk \/ StopDumpErr)

\* the peers file is readable and holds the persisted subset of ps, each
\* record once
FileHolds(ps) ==
    /\ file.valid
    /\ Len(file.entries) = Cardinality(PersistedSubset(ps))
    /\ {[ip |-> e.ip, banned |-> e.banned, bootstrap |-> e.bootstrap,
         last_alive |-> OptionFromJson(e.last_alive),
         last_failure |-> OptionFromJson(e.last_failure),
         advertised |-> e.advertised] : e \in Range(file.entries)}
          = PersistedSubset(ps)

C29_WritersNeverRace ==
    /\ ~(saver.pc = "dump" /\ stop_call.pc = "dump")
    /\ stop_call.pc \in {"dump", "returned"} => saver.pc = "done"

\* C29 witness: the final dump is in progress, after stop() has waited for
\* the saver task to finish a write.
C29_Witness ==
    /\ stop_call.pc = "dump"
    /\ stop_call.waited
    /\ saver.pc = "done"

\* C30: when stop() has returned it has started exactly one final dump,
\* after the saver task ended; it has returned Ok whether the dump
\* succeeded or not; and when the dump succeeded the file holds the
\* persisted subset of the live directory.
C30_StopDumpsOnce ==
    stop_call.pc = "returned" =>
        /\ stop_call.dumps = 1
        /\ saver.pc = "done"
        /\ stop_call.res = "Ok"
        /\ stop_call.dumped => FileHolds(peers)

\* C30 witness: stop() has returned after a successful final dump, the
\* saver task having ended with a dump still due (its timer armed) and a
\* snapshot never written by it; the file differs from the one read at
\* construction.
C30_Witness ==
    /\ stop_call.pc = "returned"
    /\ stop_call.dumped
    /\ saver.need_dump /\ saver.delay = "armed"
    /\ hist.written < hist.sends
    /\ FileHolds(peers)
    /\ file # Written(SaverFile)

\* the scheduling alone: the tokio runtime polls the saver task when it can
\* go on, a write in progress returns (Ok or Err), and select! picks every
\* ready branch in turn; nothing is assumed about the success of the writes
SpecSaverScheduled ==
    /\ SpecSaver
    /\ SF_vars(SaverChanged)
    /\ WF_vars(SaverDumpOk \/ SaverDumpErr)
    /\ SF_vars(SaverClosed)

\* C31: once stop() has dropped the sender of the watch channel, the saver
\* task ends, whatever state it was in (waiting, timer armed, writing,
\* after failed writes), under fair scheduling and provided a write in
\* progress returns.
C31_SaverExits == (~tx_open) ~> (saver.pc = "done")

\* C31 witness: the saver task has ended while stop() waits for it, with a
\* dump still due after a failed write that left the file unreadable.
C31_Witness ==
    /\ stop_call.pc = "join"
    /\ saver.pc = "done"
    /\ saver.need_dump
    /\ ~file.valid

\* what the public operations read: the configuration, the directory, the
\* aggregate counters, the clock and the watch channel
CoreView ==
    <<cfg, peers, active_out_connection_attempts, active_out_connections,
      active_in_connections, now, saver_watch>>

\* the outcomes the public calls of the core can have in this state
CallOutcomes ==
    UNION ({merge_candidate_peers(l) : l \in NewPeersLists}
           \cup {peer_banned(ip) : ip \in IPs}
           \cup {try_new_in_connection(ip) : ip \in IPs})

\* C32: a write of the saver task, failed or not, leaves everything the
\* public operations read as it was, so their outcome and the directory are
\* the same whether the writes succeed or fail; and while the database has
\* not been stopped the receiver of the channel is alive, so no operation
\* returns the channel error, however the writes went.
C32_WriteFailuresStayInTheSaver ==
    /\ [][saver.pc = "dump" /\ saver'.pc # "dump" => CoreView' = CoreView]_vars
    /\ [](tx_open => /\ saver_watch.rx_open
                     /\ \A o \in CallOutcomes : o.res # "ChannelError")

\* C32 witness: while the file was unreadable after a failed write of the
\* saver task, a public call has sent its snapshot and the task is up to
\* retry.
C32_Witness ==
    /\ tx_open
    /\ hist.on_torn
    /\ saver.pc = "select" /\ saver.need_dump
    /\ saver_watch.rx_open

\* the saver task takes a change signal: changed() returns Ok
SignalReceived == saver.pc = "select" /\ saver_watch.changed /\ ~saver_watch'.changed

\* the saver task comes back from dump_peers
WriteEnds == saver.pc = "dump" /\ saver'.pc = "select"

\* C33: the timer of the saver task is armed only by a change signal received
\* while no dump is pending or by a failed write; a change signal received
\* while a dump is pending leaves the pending flag and the timer as they are;
\* the pending flag is cleared only by a write that succeeded, and a write
\* that failed keeps it set and arms the timer again.
C33_TimerAndPendingFlag ==
    [][/\ saver.delay # "armed" /\ saver'.delay = "armed"
          => \/ SignalReceived /\ ~saver.need_dump
             \/ WriteEnds /\ saver'.need_dump
       /\ SignalReceived /\ saver.need_dump
          => saver'.need_dump /\ saver'.delay = saver.delay
       /\ saver.need_dump /\ ~saver'.need_dump
          => WriteEnds /\ file' \in {Written(e) : e \in dump_peers(saver.to_dump)}
       /\ WriteEnds /\ file' \notin {Written(e) : e \in dump_peers(saver.to_dump)}
          => saver'.need_dump /\ saver'.delay = "armed"
       /\ WriteEnds /\ saver'.need_dump
          => saver'.delay = "armed"]_vars

\* C33 witness: a write has failed and left the file unreadable, the timer
\* was armed again, and the change signal of a snapshot sent during that
\* write has been received while the dump was still pending.
C33_Witness ==
    /\ saver.pc = "select" /\ saver.need_dump /\ saver.delay = "armed"
    /\ ~file.valid
    /\ hist.sends = 2 /\ saver.version = 1
    /\ ~saver_watch.changed

\* C34: peer_banned(ip) fails with PeerInfoNotFoundError and changes nothing
\* when ip has no record; else, when it returns without a clock or channel
\* error, the record got last_failure = now and banned = true whether or not
\* it was banned before, cleanup ran on the result only when the record
\* passed from not banned to banned and is inactive and non-bootstrap, no
\* aggregate counter moved, and a snapshot of the resulting directory was
\* sent.
C34_PeerBanned ==
    [][ret'.op = "peer_banned" =>
         LET ip == ret'.ip IN
         IF ip \notin DOMAIN peers
         THEN ret'.res = "PeerInfoNotFoundError" /\ DatabaseUnchanged /\ ~ret'.sent
                /\ saver_watch' = saver_watch
         ELSE ret'.res \notin InfrastructureErrors =>
                LET d1 == [peers EXCEPT ![ip].last_failure = now,
                                        ![ip].banned = TRUE]
                IN /\ ret'.res = "Ok"
                   /\ peers' \in (IF ~peers[ip].banned
                                  THEN AfterCleanupIfIdle(d1, ip)
                                  ELSE {d1})
                   /\ active_out_connection_attempts' = active_out_connection_attempts
                   /\ active_out_connections' = active_out_connections
                   /\ active_in_connections' = active_in_connections
                   /\ ret'.sent
                   /\ saver_watch'.value = peers'
                   /\ saver_watch'.changed]_vars

\* C34 witness: peer_banned has returned Ok after the clock moved: the record
\* is kept, banned, with last_failure at the current time, and the snapshot
\* of the directory was sent.
C34_Witness ==
    /\ ret.op = "peer_banned"
    /\ ret.res = "Ok"
    /\ ret.sent
    /\ ret.ip \in DOMAIN peers
    /\ peers[ret.ip].banned
    /\ peers[ret.ip].last_failure = now
    /\ now > 0
    /\ saver_watch.value = peers

\* a call is observed in every run: the calls of the environment go on until
\* one of them is the call the run is stopped at
SpecObserved == Spec /\ WF_vars(Next)

\* the step is a call of try_new_in_connection(ip) for an ip without a record
\* that leaves a record of ip in the directory
InsertedByInConnection ==
    /\ ret'.op = "try_new_in_connection"
    /\ ret'.ip \notin DOMAIN peers
    /\ ret'.ip \in DOMAIN peers'

C36_AggregatesAfterConstruction ==
    (ret.op = "new" /\ ret.res = "Ok")
       => /\ active_out_connection_attempts
               = Sum(peers, "active_out_connection_attempts")
          /\ active_out_connections = Sum(peers, "active_out_connections")
          /\ active_in_connections = Sum(peers, "active_in_connections")

\* C37: the value of the watch channel is only written by a public call that
\* sends, and is then the whole directory as the call leaves it at its
\* return, cleanup included; the snapshot the saver task takes to write is
\* the value of the channel.  So every snapshot the saver task reads is the
\* directory at the return of the call that sent it.
C37_SnapshotsAreDirectoriesAtReturn ==
    [][/\ hist'.sends # hist.sends => saver_watch'.value = peers'
       /\ hist'.sends = hist.sends => saver_watch'.value = saver_watch.value
       /\ saver'.to_dump # saver.to_dump
          => saver'.to_dump = saver_watch.value /\ saver'.version = hist.sends]_vars

\* C37 witness: the saver task is writing the snapshot the second call sent:
\* the directory that call left, with a banned record next to the bootstrap
\* one.
C37_Witness ==
    /\ saver.pc = "dump"
    /\ saver.version = 2
    /\ saver.to_dump = peers
    /\ Cardinality(DOMAIN peers) = 2
    /\ \E ip \in DOMAIN peers : peers[ip].banned

\* the operations whose code calls cleanup_peers, and those of them that
\* first take one unit off a counter of the record they are called for
CleanupCallers ==
    {"merge_candidate_peers", "peer_banned", "out_connection_closed",
     "in_connection_closed", "try_out_connection_attempt_success",
     "out_connection_attempt_failed"}

CounterDroppers ==
    {"out_connection_closed", "in_connection_closed",
     "try_out_connection_attempt_success", "out_connection_attempt_failed"}

\* the connections and attempts counted on the record p
CountedOn(p) ==
    p.active_out_connection_attempts + p.active_out_connections
      + p.active_in_connections

\* C38: a record leaves the directory only in an operation that calls
\* cleanup_peers; a record that cleanup removes has no connection and no
\* attempt counted when cleanup runs (nothing before the call, or the one
\* unit the operation itself has just taken off it); the counters of the
\* records kept are as before, the record the operation is called for
\* apart; and merge_candidate_peers leaves the three aggregate counters and
\* the counters of every record it keeps unchanged.
C38_RemovalOnlyByCleanupOfInactive ==
    [][ret'.op # "none" =>
         LET removed == DOMAIN peers \ DOMAIN peers'
             kept == DOMAIN peers \cap DOMAIN peers'
         IN /\ removed # {} => ret'.op \in CleanupCallers
            /\ \A ip \in removed :
                 CountedOn(peers[ip])
                   = IF ip = ret'.ip /\ ret'.op \in CounterDroppers THEN 1 ELSE 0
            /\ \A ip \in kept :
                 ip # ret'.ip => Counters(peers')[ip] = Counters(peers)[ip]
            /\ ret'.op \in {"merge_candidate_peers", "peer_banned"}
                 => /\ \A ip \in kept : Counters(peers')[ip] = Counters(peers)[ip]
                    /\ active_out_connection_attempts' = active_out_connection_attempts
                    /\ active_out_connections' = active_out_connections
                    /\ active_in_connections' = active_in_connections]_vars

\* C38 witness: in_connection_closed has returned Ok and its cleanup has
\* removed the record it was called for, left without connection, while a
\* record with a connection or attempt counted is kept.
C38_Witness ==
    /\ ret.op = "in_connection_closed"
    /\ ret.res = "Ok"
    /\ ret.ip \notin DOMAIN peers
    /\ \E ip \in DOMAIN peers : is_active(peers[ip])

\* C39: in every state reached from counters at zero, the out connection
\* attempts and the out connections together are at most
\* target_out_connections; so the out connections never exceed the target,
\* and try_out_connection_attempt_success returns false only for a record
\* that is banned and has an attempt pending, never because the target is
\* reached.
C39_AttemptsPlusOutWithinTarget ==
    /\ [](/\ active_out_connection_attempts + active_out_connections
               <= cfg.target_out_connections
          /\ active_out_connections <= cfg.target_out_connections
          /\ active_out_connection_attempts > 0
               => active_out_connections < cfg.target_out_connections)
    /\ [][(ret'.op = "try_out_connection_attempt_success" /\ ret'.res = "false")
          => /\ ret'.ip \in DOMAIN peers
             /\ peers[ret'.ip].banned
             /\ peers[ret'.ip].active_out_connection_attempts > 0]_vars

\* C39 witness: try_out_connection_attempt_success has returned true for
\* the connection that fills the target, no attempt being left.
C39_Witness ==
    /\ ret.op = "try_out_connection_attempt_success"
    /\ ret.res = "true"
    /\ active_out_connections = cfg.target_out_connections
    /\ active_out_connection_attempts = 0

\* C40: after construction and after every public operation that returns
\* without error, the persisted subset of the snapshot held by the watch
\* channel is the persisted subset of the directory.
C40_SnapshotMatchesDirectory ==
    /\ PersistedSubset(saver_watch.value) = PersistedSubset(peers)
    /\ [][ret'.op # "none" /\ ret'.res \notin ErrorResults
            => PersistedSubset(saver_watch'.value) = PersistedSubset(peers')]_vars

\* apart from the call of try_out_connection_attempt_success that fails on
\* the clock after it has marked a banned record advertised, every call
\* either sends the directory it leaves or leaves the persisted subset as
\* it was
C40_OnlyTheClockErrorDiverges ==
    [][ret'.op # "none" =>
         \/ ret'.sent /\ saver_watch'.value = peers'
         \/ PersistedSubset(peers') = PersistedSubset(peers)
         \/ /\ ret'.op = "try_out_connection_attempt_success"
            /\ ret'.res = "TimeError"
            /\ peers[ret'.ip].banned /\ ~peers[ret'.ip].advertised]_vars

====
